---------------------------- MODULE Spec2Model ----------------------------
(***************************************************************************)
(* Tab/slot joinery of a tube frame (steelbox): the joint detector         *)
(* (joinery/joint_detector.py), the tab/slot geometry generator            *)
(* (joinery/tab_slot.py) and the frame/joint orchestrator                  *)
(* (core/jointed_box.py, core/box_generator.py).                           *)
(*                                                                         *)
(* Numbers.  The code computes in floating point.  The model computes in   *)
(* exact rational arithmetic: a rational is a pair <<n, d>> with d > 0 in  *)
(* lowest terms, member coordinates are integer millimetres, and every     *)
(* member has an integer length (axis-aligned or a 3-4-5 multiple), so its *)
(* unit direction is an integer triple over DirScale.  A distance is       *)
(* carried as its square.  On these inputs the floating-point comparisons  *)
(* of the code have the same outcome as the exact ones here (the values    *)
(* compared are either equal as reals and computed by the same correctly   *)
(* rounded operation, or differ by far more than one rounding error).      *)
(***************************************************************************)
EXTENDS Integers, Sequences, FiniteSets, TLC

VARIABLES
    last,             \* the latest detector call: its operation, inputs and return value
    specs,            \* JointedBoxGenerator.specs (BoxSpecsData, shared with frame_gen)
    profile,          \* JointedBoxGenerator.profile
    eff,              \* frame_gen.eff_length/eff_height/eff_depth, cached by its constructor
    tab_slot_gen,     \* JointedBoxGenerator.tab_slot_gen
    frame_members,    \* JointedBoxGenerator.frame_members
    member_axes,      \* JointedBoxGenerator.member_axes
    joints,           \* JointedBoxGenerator.joints
    jointed_members,  \* JointedBoxGenerator.jointed_members: member id -> JointedMember,
                      \* in insertion order
    generated,        \* JointedBoxGenerator._generated
    gen_calls,        \* the number of times generate() has run on this generator
    checked,          \* the tabs and slots the latest check_interference() examined
    booleans,         \* the boolean cut/fuse operations of the latest create_parts(), in order
    manager           \* a ProfileManager: its _cache and the files of its library/ and
                      \* custom/ directories

detector_vars == <<last>>
orch_vars == <<specs, profile, eff, tab_slot_gen, frame_members, member_axes, joints,
               jointed_members, generated, gen_calls, checked, booleans>>
vars == <<last, specs, profile, eff, tab_slot_gen, frame_members, member_axes, joints,
          jointed_members, generated, gen_calls, checked, booleans, manager>>

---------------------------------------------------------------------------
(* Exact arithmetic *)

Abs(x) == IF x < 0 THEN -x ELSE x

Max(x, y) == IF x > y THEN x ELSE y

Min(x, y) == IF x < y THEN x ELSE y

RECURSIVE GCD(_, _)
GCD(x, y) == IF y = 0 THEN x ELSE GCD(y, x % y)

\* The rational n/d (d # 0) in lowest terms with a positive denominator.
Rat(n, d) ==
    LET g == GCD(Abs(n), Abs(d))
        s == IF d < 0 THEN -1 ELSE 1
    IN  <<(s * n) \div g, (s * d) \div g>>

RInt(n) == <<n, 1>>

RAdd(x, y) == Rat(x[1] * y[2] + y[1] * x[2], x[2] * y[2])

RSub(x, y) == Rat(x[1] * y[2] - y[1] * x[2], x[2] * y[2])

RMul(x, y) == Rat(x[1] * y[1], x[2] * y[2])

\* x / y for y # 0
RDiv(x, y) == Rat(x[1] * y[2], x[2] * y[1])

RNeg(x) == <<-x[1], x[2]>>

RLt(x, y) == x[1] * y[2] < y[1] * x[2]

RGt(x, y) == RLt(y, x)

RLe(x, y) == ~RLt(y, x)

RMax(x, y) == IF RLt(x, y) THEN y ELSE x

RMin(x, y) == IF RLt(y, x) THEN y ELSE x

\* Integer square root: the largest r in lo..hi with r*r <= n.
RECURSIVE ISqrtIn(_, _, _)
ISqrtIn(n, lo, hi) ==
    IF lo >= hi THEN lo
    ELSE LET mid == (lo + hi + 1) \div 2
         IN  IF mid * mid <= n THEN ISqrtIn(n, mid, hi) ELSE ISqrtIn(n, lo, mid - 1)

ISqrt(n) == ISqrtIn(n, 0, Min(n, 46340))

---------------------------------------------------------------------------
(* joinery/joint_detector.py: MemberAxis *)

\* Unit directions are integer triples of this length (3-4-5 triangles).
DirScale == 5

MemberAxis(id, s, e, w, h) ==
    [member_id |-> id, start |-> s, end |-> e, width |-> w, height |-> h]

_dot(a, b) == a[1] * b[1] + a[2] * b[2] + a[3] * b[3]

_cross(a, b) ==
    <<a[2] * b[3] - a[3] * b[2], a[3] * b[1] - a[1] * b[3], a[1] * b[2] - a[2] * b[1]>>

_subtract(a, b) == <<a[1] - b[1], a[2] - b[2], a[3] - b[3]>>

\* _norm of an integer vector of integer length
_norm(v) == ISqrt(_dot(v, v))

\* MemberAxis.length (mm)
length(m) == _norm(_subtract(m.end, m.start))

\* length < 1e-6 on integer coordinates
Degenerate(m) == length(m) = 0

\* MemberAxis.direction, times DirScale; (0, 0, 1) for a degenerate member
direction(m) ==
    LET d == _subtract(m.end, m.start)
        len == length(m)
    IN  IF len = 0 THEN <<0, 0, DirScale>>
        ELSE <<(d[1] * DirScale) \div len, (d[2] * DirScale) \div len,
               (d[3] * DirScale) \div len>>

\* MemberAxis.point_at_param: a point with rational coordinates
point_at_param(m, t) ==
    [i \in 1..3 |-> RAdd(RInt(m.start[i]), RMul(t, RInt(m.end[i] - m.start[i])))]

\* MemberAxis.is_vertical / is_horizontal_x / is_horizontal_y with tol = 0.01:
\* abs(d[k]) > 1 - tol
is_along(m, k) == Abs(direction(m)[k]) * 100 > 99 * DirScale


---------------------------------------------------------------------------
(* joinery/joint_detector.py: closest approach and joint classification *)

JointTypes == {"T_JOINT", "CORNER", "CROSS", "INLINE", "SKEW"}

\* find_intersection returning None
None == [joint_type |-> "None"]

Joint(jt, ma, mb, pt, pa, pb, tf, sf) ==
    [joint_type |-> jt, member_a |-> ma, member_b |-> mb, intersection_point |-> pt,
     param_a |-> pa, param_b |-> pb, tab_face |-> tf, slot_face |-> sf]

\* AtEnd with the threshold a digit off: param < 0.1 or param > 0.9
AtEnd_Tenth(p) == RLt(p, <<1, 10>>) \/ RGt(p, <<9, 10>>)

\* the tests "param < 0.01 or param > 0.99" of find_intersection and Joint.is_end_joint_*
AtEnd(p) == RLt(p, <<1, 100>>) \/ RGt(p, <<99, 100>>)

\* Joint.is_end_joint_a
is_end_joint_a(j) == AtEnd(j.param_a)

\* Joint.is_end_joint_b
is_end_joint_b(j) == AtEnd(j.param_b)

\* Lines 172-187 of _closest_points_on_lines for directions d1, d2 scaled by
\* DirScale: the parameters t1, t2 (mm along each line, rational).
\* With S = DirScale: a, b, c below are S^2 times the code's a, b, c and d, e
\* are S times the code's d, e, so the code's denom is (a*c - b*b) / S^4, an
\* integer over 625: abs(denom) < 1e-10 exactly when a*c - b*b = 0, and
\* abs(b) > 1e-10 exactly when b # 0.
LineParams(d1, d2, w0) ==
    LET a == _dot(d1, d1)
        b == _dot(d1, d2)
        c == _dot(d2, d2)
        d == _dot(d1, w0)
        e == _dot(d2, w0)
        denom == a * c - b * b
    IN  [t1 |-> IF denom = 0 THEN RInt(0)
                ELSE Rat(DirScale * (b * e - c * d), denom),
         t2 |-> IF denom = 0
                THEN (IF b # 0 THEN Rat(d * DirScale, b) ELSE RInt(0))
                ELSE Rat(DirScale * (a * e - b * d), denom)]

\* p + t * d for an integer point p, a direction d scaled by DirScale and a
\* rational t
PointOnLine(p, d, t) == [i \in 1..3 |-> RAdd(RInt(p[i]), RMul(t, Rat(d[i], DirScale)))]

\* the square of the length of a vector of rationals
RNorm2(v) == RAdd(RMul(v[1], v[1]), RAdd(RMul(v[2], v[2]), RMul(v[3], v[3])))

\* Lines 190-192: the square of the distance between the points pt1 and pt2
Dist2(pt1, pt2) == RNorm2([i \in 1..3 |-> RSub(pt1[i], pt2[i])])

\* the value (t1, t2, dist) returned for the parameters t, dist squared
ClosestPoints(p1, d1, p2, d2, t) ==
    [t1 |-> t.t1, t2 |-> t.t2,
     dist2 |-> Dist2(PointOnLine(p1, d1, t.t1), PointOnLine(p2, d2, t.t2))]

\* _closest_points_on_lines(p1, d1, p2, d2)
_closest_points_on_lines(p1, d1, p2, d2) ==
    ClosestPoints(p1, d1, p2, d2, LineParams(d1, d2, _subtract(p1, p2)))

\* ClassifyJoint with the inner test of the first branch inverted
ClassifyJoint_Inverted(b, param_a, param_b) ==
    LET dot_dirs == Rat(Abs(b), DirScale * DirScale)
    IN  IF RGt(dot_dirs, <<99, 100>>) THEN "INLINE"
        ELSE IF RLt(dot_dirs, <<1, 100>>)
             THEN IF RLt(param_a, <<1, 100>>) \/ RGt(param_a, <<99, 100>>)
                  THEN (IF RLt(param_b, <<1, 100>>) \/ RGt(param_b, <<99, 100>>)
                        THEN "T_JOINT" ELSE "CORNER")
                  ELSE (IF RLt(param_b, <<1, 100>>) \/ RGt(param_b, <<99, 100>>)
                        THEN "T_JOINT" ELSE "CROSS")
             ELSE "SKEW"

\* The joint type chosen at lines 252-270 from abs(dot(d1, d2)) (here b / S^2)
\* and the clamped parameters.
ClassifyJoint(b, param_a, param_b) ==
    LET dot_dirs == Rat(Abs(b), DirScale * DirScale)
    IN  IF RGt(dot_dirs, <<99, 100>>) THEN "INLINE"
        ELSE IF RLt(dot_dirs, <<1, 100>>)
             THEN IF AtEnd(param_a)
                  THEN (IF AtEnd(param_b) THEN "CORNER" ELSE "T_JOINT")
                  ELSE (IF AtEnd(param_b) THEN "T_JOINT" ELSE "CROSS")
             ELSE "SKEW"

\* TabIsSecond testing the first operand: "A ends at the joint, so A has the tab"
TabIsSecond_TestsFirst(param_a, param_b) == ~AtEnd(param_a)

\* TabIsSecond never swapping the roles
TabIsSecond_Always(param_a, param_b) == TRUE

\* Lines 272-282: TRUE when the second operand (member_b) is given the tab.
TabIsSecond(param_a, param_b) == AtEnd(param_b)

\* Lines 284-297: every branch assigns TabPosition.TOP.
TabFace(tab_member) ==
    IF is_along(tab_member, 3) THEN "TOP"
    ELSE IF is_along(tab_member, 1) THEN "TOP"
    ELSE IF is_along(tab_member, 2) THEN "TOP"
    ELSE "TOP"

\* Lines 227-229: t1 / len1 and t2 / len2 (0 for a degenerate member) for the
\* closest approach cp
ToSegment(len1, len2, cp, dot) ==
    [param_a |-> IF len1 > 0 THEN RDiv(cp.t1, RInt(len1)) ELSE RInt(0),
     param_b |-> IF len2 > 0 THEN RDiv(cp.t2, RInt(len2)) ELSE RInt(0),
     dist2 |-> cp.dist2,
     dot |-> dot]

\* Lines 213-229: the closest approach of the two axes as segment parameters
\* (before clamping), the squared distance and the scaled dot(d1, d2).
SegmentParams(member_a, member_b) ==
    ToSegment(length(member_a), length(member_b),
              _closest_points_on_lines(member_a.start, direction(member_a),
                                       member_b.start, direction(member_b)),
              _dot(direction(member_a), direction(member_b)))

\* Lines 232-233: (member.width / 2 + tolerance) / len, 0 for a degenerate member
Margin(m, tolerance) ==
    IF length(m) > 0 THEN Rat(m.width + 2 * tolerance, 2 * length(m)) ELSE RInt(0)

\* Lines 246-247: max(0, min(1, param))
Clamp(p) == RMax(RInt(0), RMin(RInt(1), p))

\* RoleParam keeping the operand order: the parameters are not re-expressed
RoleParam_OperandOrder(member, operand, own, other) == own

\* Lines 304-305: "param_a if slot_member == member_a else param_b" (and the
\* same for the tab member): own when member is the operand, other otherwise
RoleParam(member, operand, own, other) == IF member = operand THEN own ELSE other

\* Lines 231-308 of find_intersection for the segment parameters sp
JointAt(member_a, member_b, tolerance, sp) ==
    LET margin_a == Margin(member_a, tolerance)
        margin_b == Margin(member_b, tolerance)
        effective_tolerance == Rat(2 * tolerance + member_a.width + member_b.width, 2)
        param_a == Clamp(sp.param_a)
        param_b == Clamp(sp.param_b)
        second == TabIsSecond(param_a, param_b)
        slot_member == IF second THEN member_a ELSE member_b
        tab_member == IF second THEN member_b ELSE member_a
    IN  IF RLt(sp.param_a, RNeg(margin_a)) \/ RGt(sp.param_a, RAdd(RInt(1), margin_a))
        THEN None
        ELSE IF RLt(sp.param_b, RNeg(margin_b)) \/ RGt(sp.param_b, RAdd(RInt(1), margin_b))
        THEN None
        ELSE IF RGt(sp.dist2, RMul(effective_tolerance, effective_tolerance))
        THEN None
        ELSE Joint(ClassifyJoint(sp.dot, param_a, param_b), slot_member, tab_member,
                   point_at_param(member_a, param_a),
                   RoleParam(slot_member, member_a, param_a, param_b),
                   RoleParam(tab_member, member_b, param_b, param_a),
                   TabFace(tab_member), "TOP")

\* find_intersection(member_a, member_b, tolerance), tolerance in whole mm.
find_intersection(member_a, member_b, tolerance) ==
    JointAt(member_a, member_b, tolerance, SegmentParams(member_a, member_b))

\* line 331: "if joint: joints.append(joint)"
Emitted(joint) == IF joint # None THEN <<joint>> ELSE <<>>

\* the inner loop of detect_all_joints (lines 329-332): the joints of
\* members[i] with members[j], members[j + 1], ...
RECURSIVE DetectRow(_, _, _, _)
DetectRow(members, tolerance, i, j) ==
    IF j > Len(members) THEN <<>>
    ELSE Emitted(find_intersection(members[i], members[j], tolerance))
         \o DetectRow(members, tolerance, i, j + 1)

\* the outer loop of detect_all_joints (line 328) from row i on
RECURSIVE DetectFrom(_, _, _)
DetectFrom(members, tolerance, i) ==
    IF i > Len(members) THEN <<>>
    ELSE DetectRow(members, tolerance, i, i + 1) \o DetectFrom(members, tolerance, i + 1)

\* detect_all_joints(members, tolerance): pairs (i, j), i < j, in scan order
detect_all_joints(members, tolerance) == DetectFrom(members, tolerance, 1)

\* tolerance: float = 1.0
DefaultTolerance == 1

---------------------------------------------------------------------------
(* profiles/tube_profile.py and joinery/tab_slot.py: tab and slot geometry *)
(* Lengths are exact rationals in mm; the outer width and height of a      *)
(* profile are whole mm.  A unit vector is [v, n2]: the integer vector v   *)
(* with no common factor, divided by the square root of n2 = v.v.          *)

\* ProfileGeometry and ProfileTolerances of a TubeProfile
TubeProfile(ow, oh, wall, clearance, undersize, kerf, relief) ==
    [outer_width_mm |-> ow, outer_height_mm |-> oh, wall_thickness_mm |-> wall,
     slot_clearance_mm |-> clearance, tab_undersize_mm |-> undersize,
     kerf_compensation_mm |-> kerf, corner_relief_radius_mm |-> relief]

\* TubeProfile.calc_slot_width() called without a wall thickness
calc_slot_width(tube) ==
    RAdd(tube.wall_thickness_mm,
         RAdd(tube.slot_clearance_mm, tube.kerf_compensation_mm))

\* TubeProfile.calc_tab_width() called without a wall thickness
calc_tab_width(tube) ==
    RSub(tube.wall_thickness_mm,
         RAdd(tube.tab_undersize_mm, tube.kerf_compensation_mm))

\* TubeProfile.calc_fit_clearance()
calc_fit_clearance(tube) == RSub(calc_slot_width(tube), calc_tab_width(tube))

\* ProfileTolerances.total_clearance_mm
total_clearance_mm(tube) ==
    RAdd(RAdd(tube.slot_clearance_mm, tube.tab_undersize_mm),
         RMul(RInt(2), tube.kerf_compensation_mm))

\* TubeProfile.calc_tab_depth(mating_depth_mm, ratio)
calc_tab_depth(mating_depth_mm, ratio) == RMul(mating_depth_mm, ratio)

\* TabSlotGenerator.__init__(profile, tab_depth_mm, relief_type)
TabSlotGenerator(tube, tab_depth_mm, relief_type) ==
    [profile |-> tube, tab_depth_mm |-> tab_depth_mm, relief_type |-> relief_type,
     wall_thickness |-> tube.wall_thickness_mm,
     tube_width |-> tube.outer_width_mm,
     tube_height |-> tube.outer_height_mm,
     tab_width |-> calc_tab_width(tube),
     slot_width |-> calc_slot_width(tube),
     relief_radius |-> tube.corner_relief_radius_mm]

\* tab_depth_mm: float = 10.0
DefaultTabDepth == 10

\* a call with a keyword argument the function does not have
TypeError == [error |-> "TypeError"]

\* TabSlotGenerator(profile, **kwargs): __init__ takes tab_depth_mm and
\* relief_type and nothing else; an argument left out takes its default
NewTabSlotGenerator(tube, kwargs) ==
    IF DOMAIN kwargs \subseteq {"tab_depth_mm", "relief_type"}
    THEN TabSlotGenerator(tube,
             IF "tab_depth_mm" \in DOMAIN kwargs THEN kwargs.tab_depth_mm
             ELSE RInt(DefaultTabDepth),
             IF "relief_type" \in DOMAIN kwargs THEN kwargs.relief_type
             ELSE "RADIUS")
    ELSE TypeError

\* v / sqrt(v.v) for a non-zero vector v of rationals
UnitVector(v) ==
    LET m == v[1][2] * v[2][2] * v[3][2]
        w == [i \in 1..3 |-> (v[i][1] * m) \div v[i][2]]
        g == GCD(GCD(Abs(w[1]), Abs(w[2])), Abs(w[3]))
        u == <<w[1] \div g, w[2] \div g, w[3] \div g>>
    IN  [v |-> u, n2 |-> _dot(u, u)]

\* the unit vector along an integer axis vector
AxisVector(a) == [v |-> a, n2 |-> 1]

\* a point with integer coordinates as a point with rational coordinates
RPoint(p) == <<RInt(p[1]), RInt(p[2]), RInt(p[3])>>

\* p + k * n for a rational point p, an integer vector n and a rational k
Offset(p, n, k) == [i \in 1..3 |-> RAdd(p[i], RMul(RInt(n[i]), k))]

TabGeometry(w, d, t, pos, dir, n, r) ==
    [width |-> w, depth |-> d, thickness |-> t, position |-> pos, direction |-> dir,
     normal |-> n, corner_radius |-> r]

SlotGeometry(w, d, l, pos, dir, al, rt, rr) ==
    [width |-> w, depth |-> d, length |-> l, position |-> pos, direction |-> dir,
     along |-> al, relief_type |-> rt, relief_radius |-> rr]

\* the None of generate_joint_features' (None, None)
NoFeature == [width |-> "None"]

\* TabSlotGenerator.calc_tab_geometry(joint, face)
calc_tab_geometry(gen, joint, face) ==
    LET tab_member == joint.member_b
        slot_member == joint.member_a
        base_pos == IF RGt(joint.param_b, <<1, 2>>) THEN tab_member.end
                    ELSE tab_member.start
        tab_dir == direction(tab_member)
        slot_dir == direction(slot_member)
        slot_center == point_at_param(slot_member, joint.param_a)
        dv == [i \in 1..3 |-> RSub(slot_center[i], RInt(base_pos[i]))]
        extend_dir == IF dv # RPoint(<<0, 0, 0>>) THEN UnitVector(dv)
                      ELSE UnitVector(RPoint(slot_dir))
        top == face = "TOP"
        face_normal ==
            IF Abs(tab_dir[3]) * 10 > 9 * DirScale
            THEN IF Abs(extend_dir.v[1]) > Abs(extend_dir.v[2])
                 THEN (IF top THEN <<0, 1, 0>> ELSE <<0, -1, 0>>)
                 ELSE (IF top THEN <<1, 0, 0>> ELSE <<-1, 0, 0>>)
            ELSE (IF top THEN <<0, 0, 1>> ELSE <<0, 0, -1>>)
        face_offset == RSub(Rat(gen.tube_height, 2), RDiv(gen.wall_thickness, RInt(2)))
    IN  TabGeometry(gen.tab_width, gen.tab_depth_mm, gen.wall_thickness,
                    Offset(RPoint(base_pos), face_normal, face_offset),
                    extend_dir, face_normal,
                    IF gen.relief_type = "RADIUS" THEN gen.relief_radius ELSE RInt(0))

\* TabSlotGenerator.calc_slot_geometry(joint, face)
calc_slot_geometry(gen, joint, face) ==
    LET slot_member == joint.member_a
        tab_member == joint.member_b
        slot_depth == RMul(gen.wall_thickness, RInt(2))
        slot_length == RAdd(gen.tab_depth_mm, RMul(gen.relief_radius, RInt(2)))
        position == point_at_param(slot_member, joint.param_a)
        member_dir == direction(slot_member)
        tab_base == IF RGt(joint.param_b, <<1, 2>>) THEN tab_member.end
                    ELSE tab_member.start
        approach == [i \in 1..3 |-> RSub(position[i], RInt(tab_base[i]))]
        vertical == Abs(member_dir[3]) * 10 > 9 * DirScale
        along_x == Abs(member_dir[1]) * 10 > 9 * DirScale
        slot_into ==
            IF vertical
            THEN (IF RGt(approach[2], RInt(0)) THEN <<0, 1, 0>> ELSE <<0, -1, 0>>)
            ELSE (IF RGt(approach[3], RInt(0)) THEN <<0, 0, 1>> ELSE <<0, 0, -1>>)
        along == IF vertical THEN <<1, 0, 0>>
                 ELSE IF along_x THEN <<0, 1, 0>>
                 ELSE <<1, 0, 0>>
        face_offset == Rat(gen.tube_height, 2)
    IN  SlotGeometry(gen.slot_width, slot_depth, slot_length,
                     Offset(position, slot_into, face_offset),
                     slot_into, along, gen.relief_type, gen.relief_radius)

\* TabSlotGenerator.generate_joint_features(joint): the pair (tab, slot)
generate_joint_features(gen, joint) ==
    IF joint.joint_type = "INLINE" THEN [tab |-> NoFeature, slot |-> NoFeature]
    ELSE [tab |-> calc_tab_geometry(gen, joint, joint.tab_face),
          slot |-> calc_slot_geometry(gen, joint, joint.slot_face)]

\* a cylinder of Part.makeCylinder, in the slot's plane: its centre and radius
Cylinder(cx, cy, radius) == [center |-> <<cx, cy>>, radius |-> radius]

\* TabSlotGenerator.create_slot_shape(slot) before it is oriented and moved:
\* the corners of the main box in the slot's plane and the cylinders fused
\* to it
create_slot_shape(slot) ==
    LET half_w == RDiv(slot.width, RInt(2))
        half_l == RDiv(slot.length, RInt(2))
        r == slot.relief_radius
        corners == << <<RNeg(half_w), RNeg(half_l)>>, <<RNeg(half_w), half_l>>,
                      <<half_w, RNeg(half_l)>>, <<half_w, half_l>> >>
    IN  [corners |-> corners,
         radius |-> r,
         cylinders |->
             IF slot.relief_type = "DOGBONE" /\ RGt(r, RInt(0))
             THEN [i \in 1..4 |-> Cylinder(corners[i][1], corners[i][2], r)]
             ELSE <<>>]

---------------------------------------------------------------------------
(* joinery/corner_relief.py: create_dogbone_relief, recommend_relief_type *)

\* create_dogbone_relief(slot_width, slot_length, slot_depth, radius): the
\* corners of the slot in its plane and the cylinders of the relief shape
create_dogbone_relief(slot_width, slot_length, slot_depth, radius) ==
    LET half_w == RDiv(slot_width, RInt(2))
        half_l == RDiv(slot_length, RInt(2))
        corners == << <<RSub(half_w, radius), RSub(half_l, radius)>>,
                      <<RSub(half_w, radius), RAdd(RNeg(half_l), radius)>>,
                      <<RAdd(RNeg(half_w), radius), RSub(half_l, radius)>>,
                      <<RAdd(RNeg(half_w), radius), RAdd(RNeg(half_l), radius)>> >>
    IN  [corners |-> << <<half_w, half_l>>, <<half_w, RNeg(half_l)>>,
                        <<RNeg(half_w), half_l>>, <<RNeg(half_w), RNeg(half_l)>> >>,
         radius |-> radius,
         cylinders |-> [i \in 1..4 |-> Cylinder(corners[i][1], corners[i][2], radius)]]

\* str.lower() on the process names the calls use
Lower(str) ==
    CASE str = "Laser" -> "laser"
      [] str = "Fiber Laser" -> "fiber laser"
      [] str = "PLASMA" -> "plasma"
      [] str = "Waterjet" -> "waterjet"
      [] str = "CNC" -> "cnc"
      [] str = "Router" -> "router"
      [] OTHER -> str

\* recommend_relief_type(cutting_process, tab_corner_radius)
recommend_relief_type(cutting_process, tab_corner_radius) ==
    LET process == Lower(cutting_process)
    IN  IF RGt(tab_corner_radius, Rat(1, 10)) THEN "RADIUS"
        ELSE IF process \in {"laser", "fiber laser", "co2 laser"} THEN "RADIUS"
        ELSE IF process \in {"plasma"} THEN "DOGBONE"
        ELSE IF process \in {"waterjet"} THEN "RADIUS"
        ELSE IF process \in {"cnc", "mill", "router"} THEN "DOGBONE"
        ELSE "RADIUS"

---------------------------------------------------------------------------
(* joinery/interference.py: bounding boxes and the pairwise checks *)

BoundingBox(min_x, min_y, min_z, max_x, max_y, max_z) ==
    [min_x |-> min_x, min_y |-> min_y, min_z |-> min_z,
     max_x |-> max_x, max_y |-> max_y, max_z |-> max_z]

\* a separating test written with <= and >= in place of < and >
intersects_Strict(self, other, tolerance) ==
    ~(\/ RLe(self.max_x, RSub(other.min_x, tolerance))
      \/ RLe(RAdd(other.max_x, tolerance), self.min_x)
      \/ RLe(self.max_y, RSub(other.min_y, tolerance))
      \/ RLe(RAdd(other.max_y, tolerance), self.min_y)
      \/ RLe(self.max_z, RSub(other.min_z, tolerance))
      \/ RLe(RAdd(other.max_z, tolerance), self.min_z))

\* the y and z tests left out
intersects_XOnly(self, other, tolerance) ==
    ~(\/ RLt(self.max_x, RSub(other.min_x, tolerance))
      \/ RGt(self.min_x, RAdd(other.max_x, tolerance)))

\* BoundingBox.intersects(other, tolerance)
intersects(self, other, tolerance) ==
    ~(\/ RLt(self.max_x, RSub(other.min_x, tolerance))
      \/ RGt(self.min_x, RAdd(other.max_x, tolerance))
      \/ RLt(self.max_y, RSub(other.min_y, tolerance))
      \/ RGt(self.min_y, RAdd(other.max_y, tolerance))
      \/ RLt(self.max_z, RSub(other.min_z, tolerance))
      \/ RGt(self.min_z, RAdd(other.max_z, tolerance)))

\* component i of the unit vector dir = [v, n2]: v[i] / sqrt(n2), exact when
\* n2 is a perfect square
DirComponent(dir, i) == Rat(dir.v[i], ISqrt(dir.n2))

\* the box of the segment p..e grown by hx, hy, hz along x, y, z
BoxAround(p, e, hx, hy, hz) ==
    BoundingBox(RSub(RMin(p[1], e[1]), hx), RSub(RMin(p[2], e[2]), hy),
                RSub(RMin(p[3], e[3]), hz),
                RAdd(RMax(p[1], e[1]), hx), RAdd(RMax(p[2], e[2]), hy),
                RAdd(RMax(p[3], e[3]), hz))

\* BoundingBox.from_tab(tab)
from_tab(tab) ==
    BoxAround(tab.position,
              [i \in 1..3 |-> RAdd(tab.position[i],
                                   RMul(DirComponent(tab.direction, i), tab.depth))],
              RDiv(tab.width, RInt(2)), RDiv(tab.width, RInt(2)),
              RDiv(tab.thickness, RInt(2)))

\* max(half_w, half_l) of from_slot
SlotHalf(slot) == RMax(RDiv(slot.width, RInt(2)), RDiv(slot.length, RInt(2)))

\* BoundingBox.from_slot(slot)
from_slot(slot) ==
    BoxAround(slot.position,
              [i \in 1..3 |-> RAdd(slot.position[i],
                                   RMul(RInt(slot.direction[i]), slot.depth))],
              SlotHalf(slot), SlotHalf(slot), SlotHalf(slot))

\* the center of two positions
Center(pa, pb) == [i \in 1..3 |-> RDiv(RAdd(pa[i], pb[i]), RInt(2))]

Interference(interference_type, feature_a, feature_b, location, resolution) ==
    [interference_type |-> interference_type, feature_a |-> feature_a,
     feature_b |-> feature_b, location |-> location, resolution |-> resolution]

\* the inner loop of check_tab_tab_interference: tab i against tabs j..
RECURSIVE TabRow(_, _, _, _)
TabRow(tabs, tolerance, i, j) ==
    IF j > Len(tabs) THEN <<>>
    ELSE (IF intersects(from_tab(tabs[i][2]), from_tab(tabs[j][2]), tolerance)
          THEN <<Interference("TAB_TAB", "Tab from " \o tabs[i][1],
                              "Tab from " \o tabs[j][1],
                              Center(tabs[i][2].position, tabs[j][2].position),
                              "Offset tabs or reduce tab width")>>
          ELSE <<>>)
         \o TabRow(tabs, tolerance, i, j + 1)

\* the outer loop of check_tab_tab_interference: rows i..
RECURSIVE TabRows(_, _, _)
TabRows(tabs, tolerance, i) ==
    IF i > Len(tabs) THEN <<>>
    ELSE TabRow(tabs, tolerance, i, i + 1) \o TabRows(tabs, tolerance, i + 1)

\* check_tab_tab_interference(tabs, tolerance), tabs a list of (id, tab)
check_tab_tab_interference(tabs, tolerance) == TabRows(tabs, tolerance, 1)

\* tolerance: float = 0.5
DefaultTabTolerance == Rat(1, 2)

\* min_web: float = 3.0
DefaultMinWeb == RInt(3)

\* the inner loop of check_slot_slot_interference: slot i against slots j..
RECURSIVE SlotRow(_, _, _, _)
SlotRow(slots, min_web, i, j) ==
    IF j > Len(slots) THEN <<>>
    ELSE (IF intersects(from_slot(slots[i][2]), from_slot(slots[j][2]), RNeg(min_web))
          THEN <<Interference("SLOT_SLOT", "Slot from " \o slots[i][1],
                              "Slot from " \o slots[j][1],
                              Center(slots[i][2].position, slots[j][2].position),
                              <<"Slots too close - need ", min_web, "mm minimum web">>)>>
          ELSE <<>>)
         \o SlotRow(slots, min_web, i, j + 1)

\* the outer loop of check_slot_slot_interference: rows i..
RECURSIVE SlotRows(_, _, _)
SlotRows(slots, min_web, i) ==
    IF i > Len(slots) THEN <<>>
    ELSE SlotRow(slots, min_web, i, i + 1) \o SlotRows(slots, min_web, i + 1)

\* check_slot_slot_interference(slots, min_web), slots a list of (id, slot)
check_slot_slot_interference(slots, min_web) == SlotRows(slots, min_web, 1)

\* InterferenceChecker.check_all(tabs, slots) of a checker with the given
\* tolerance and min_slot_web
check_all(tolerance, min_slot_web, tabs, slots) ==
    check_tab_tab_interference(tabs, tolerance)
    \o check_slot_slot_interference(slots, min_slot_web)

---------------------------------------------------------------------------
(* The members the detector is run on *)

\* 50 x 50 tube of the scenarios
Sq(id, s, e) == MemberAxis(id, s, e, 50, 50)

MemberPool ==
    { Sq("A", <<0, 0, 0>>, <<1000, 0, 0>>),          \* Scenario A, member A
      Sq("B", <<500, -50, 0>>, <<500, 500, 0>>),     \* Scenario A, member B
      Sq("V", <<0, 0, 0>>, <<0, 0, 500>>),           \* Scenario B, member A
      Sq("H", <<0, 0, 500>>, <<500, 0, 500>>),       \* Scenario B, member B
      Sq("T0", <<500, 0, 0>>, <<500, 500, 0>>),      \* starts on A's centerline
      Sq("T25", <<500, 25, 0>>, <<500, 500, 0>>),    \* starts on A's face
      Sq("T27", <<500, 27, 0>>, <<500, 500, 0>>),    \* starts 2 mm off A's face
      Sq("B01", <<500, -1, 0>>, <<500, 99, 0>>),     \* meets A at its parameter 0.01
      Sq("B99", <<500, -99, 0>>, <<500, 1, 0>>),     \* meets A at its parameter 0.99
      Sq("X01", <<0, 0, 0>>, <<100, 0, 0>>),
      Sq("Y1", <<1, 0, 0>>, <<1, 100, 0>>),          \* meets X01 at X01's parameter 0.01
      Sq("Off", <<500, -200, 10>>, <<500, 200, 10>>),\* crosses A 10 mm above its axis
      Sq("I1", <<1000, 0, 0>>, <<1500, 0, 0>>),      \* continues A end to end
      Sq("P", <<500, 0, 0>>, <<1500, 0, 0>>),        \* collinear with A, overlapping
      Sq("Far", <<0, 300, 0>>, <<1000, 300, 0>>),    \* parallel to A, 300 mm away
      Sq("Deg", <<500, 0, 0>>, <<500, 0, 0>>),       \* degenerate: start = end
      Sq("Sk", <<0, 0, 0>>, <<300, 400, 0>>),        \* 3-4-5 diagonal from A's start
      Sq("Sk2", <<400, 0, 0>>, <<700, 400, 0>>),     \* 3-4-5 diagonal from a point of A
      Sq("Up", <<500, 0, 20>>, <<500, 500, 20>>),    \* starts 20 mm above A's axis
      Sq("Yv", <<0, 20, 250>>, <<0, 400, 250>>),     \* starts 20 mm in front of V's axis
      MemberAxis("Thin", <<500, 0, 0>>, <<500, 0, 400>>, 20, 20) }

Tolerances == {DefaultTolerance, 5}

\* the largest member list given to detect_all_joints
MaxMembers == 3

\* the members detect_all_joints is given lists of: the scenarios' members,
\* and one member of each kind of meeting with A
DetectPool ==
    {m \in MemberPool :
        m.member_id \in {"A", "B", "V", "H", "T0", "B01", "Off", "I1", "Deg", "Sk", "Thin"}}

\* the lists of at most n members of DetectPool
RECURSIVE MemberLists(_)
MemberLists(n) ==
    IF n = 0 THEN {<<>>}
    ELSE LET shorter == MemberLists(n - 1)
         IN  shorter \cup
             { Append(ms, m) : ms \in {x \in shorter : Len(x) = n - 1},
                               m \in DetectPool }

DistinctIds(ms) == \A i, j \in 1..Len(ms) : i # j => ms[i].member_id # ms[j].member_id

---------------------------------------------------------------------------
(* Detector calls *)

\* the calls made: find_intersection(a, b, tol) on every ordered pair of the
\* pool, detect_all_joints(ms) with the default tolerance on every list of
\* members with distinct ids; pc is "call" before the function has run and
\* "return" once result holds what it returned
DetectorCalls ==
    { [op |-> "find_intersection", member_a |-> a, member_b |-> b,
       tolerance |-> tol, pc |-> "call", result |-> None] :
          a \in MemberPool, b \in MemberPool, tol \in Tolerances }
    \cup
    { [op |-> "detect_all_joints", members |-> ms, tolerance |-> DefaultTolerance,
       pc |-> "call", result |-> <<>>] :
          ms \in {x \in MemberLists(MaxMembers) : DistinctIds(x)} }

FindIntersection ==
    /\ last.op = "find_intersection"
    /\ last.pc = "call"
    /\ last' = [last EXCEPT !.pc = "return", !.result =
                    find_intersection(last.member_a, last.member_b, last.tolerance)]
    /\ UNCHANGED <<orch_vars, manager>>

DetectAllJoints ==
    /\ last.op = "detect_all_joints"
    /\ last.pc = "call"
    /\ last' = [last EXCEPT !.pc = "return", !.result =
                    detect_all_joints(last.members, last.tolerance)]
    /\ UNCHANGED <<orch_vars, manager>>

\* no JointedBoxGenerator has been constructed
OrchIdle ==
    /\ specs = <<>> /\ profile = <<>> /\ eff = <<>> /\ tab_slot_gen = <<>>
    /\ frame_members = <<>> /\ member_axes = <<>> /\ joints = <<>>
    /\ jointed_members = <<>> /\ generated = FALSE /\ gen_calls = 0
    /\ checked = <<>> /\ booleans = <<>>

\* no ProfileManager has been constructed
ManagerIdle == manager = <<>>

Init == last \in DetectorCalls /\ OrchIdle /\ ManagerIdle

Next == FindIntersection \/ DetectAllJoints

Spec == Init /\ [][Next]_vars

---------------------------------------------------------------------------
(* Properties of the joint detector *)

\* Scenario C's profile on a 50 x 50 tube: wall 3.175, slot clearance 0.10,
\* tab undersize 0.05, kerf compensation 0.15, relief radius 1.5
ScenarioProfile ==
    TubeProfile(50, 50, <<127, 40>>, <<1, 10>>, <<1, 20>>, <<3, 20>>, <<3, 2>>)

\* Joint.is_end_joint_a / is_end_joint_b as a test of one parameter
is_end_joint_of(p) == is_end_joint_a([param_a |-> p])

PoolMember(id) == CHOOSE m \in MemberPool : m.member_id = id

\* find_intersection has returned
FIReturned == last.op = "find_intersection" /\ last.pc = "return"

\* detect_all_joints has returned
DetectReturned == last.op = "detect_all_joints" /\ last.pc = "return"

\* the clamped parameters of the two operands of the latest find_intersection
OperandParamA == Clamp(SegmentParams(last.member_a, last.member_b).param_a)

OperandParamB == Clamp(SegmentParams(last.member_a, last.member_b).param_b)

\* "at an end" with the boundary values included: param <= 0.01 or param >= 0.99
AtEndInclusive(p) == RLe(p, <<1, 100>>) \/ RLe(<<99, 100>>, p)

\* the axes of two members are exactly perpendicular
Perpendicular(a, b) == _dot(direction(a), direction(b)) = 0

ScenarioA == {<<PoolMember("A"), PoolMember("B")>>, <<PoolMember("B"), PoolMember("A")>>}

TypeByEnds(j, at_end(_)) ==
    IF at_end(j.param_a) /\ at_end(j.param_b) THEN "CORNER"
    ELSE IF at_end(j.param_a) \/ at_end(j.param_b) THEN "T_JOINT"
    ELSE "CROSS"

C3_CornerTabIsSecond ==
    FIReturned =>
        /\ (last.result.joint_type = "CORNER" =>
                /\ last.result.member_b = last.member_b
                /\ last.result.member_a = last.member_a)
        /\ ((last.member_a = PoolMember("V") /\ last.member_b = PoolMember("H")) =>
                /\ last.result.joint_type = "CORNER"
                /\ last.result.member_b = PoolMember("H"))

C3_Witness ==
    /\ FIReturned
    /\ last.member_a = PoolMember("V")
    /\ last.member_b = PoolMember("H")
    /\ last.result.joint_type = "CORNER"

\* the member of the operand pair that is given the tab when exactly one of
\* the two operands is at an end
EndingMemberHasTab(at_end(_)) ==
    (FIReturned /\ last.result # None) =>
        /\ (at_end(OperandParamA) /\ ~at_end(OperandParamB) =>
                /\ last.result.member_b = last.member_a
                /\ last.result.member_a = last.member_b)
        /\ (at_end(OperandParamB) /\ ~at_end(OperandParamA) =>
                /\ last.result.member_b = last.member_b
                /\ last.result.member_a = last.member_a)

C5_Symmetry ==
    FIReturned =>
        LET r == last.result
            q == find_intersection(last.member_b, last.member_a, last.tolerance)
        IN  /\ (r = None) <=> (q = None)
            /\ (r # None /\ q # None) =>
                  /\ r.joint_type = q.joint_type
                  /\ r.intersection_point = q.intersection_point
                  /\ (r.member_b # q.member_b =>
                          /\ r.joint_type = "CORNER"
                          /\ r.member_b = last.member_b
                          /\ q.member_b = last.member_a)

\* the bijections of 1..n
IndexPermutations(n) ==
    {f \in [1..n -> 1..n] : \A i, j \in 1..n : i # j => f[i] # f[j]}

\* a joint as (type, slot-receiver id, tab-bearer id, param_a, param_b)
JointKey(j) ==
    <<j.joint_type, j.member_a.member_id, j.member_b.member_id, j.param_a, j.param_b>>

JointSet(js) == {JointKey(js[i]) : i \in 1..Len(js)}

\* C6: the set of joints detect_all_joints emits is the same for every
\* permutation of the member list.
C6_OrderIndependent ==
    DetectReturned =>
        \A f \in IndexPermutations(Len(last.members)) :
            JointSet(detect_all_joints([i \in 1..Len(last.members) |-> last.members[f[i]]],
                                       last.tolerance))
                = JointSet(last.result)

\* two non-degenerate members on one line, with the same direction, the end
\* of one being the start of the other
EndToEnd(a, b) ==
    /\ ~Degenerate(a)
    /\ ~Degenerate(b)
    /\ direction(a) = direction(b)
    /\ (a.end = b.start \/ b.end = a.start)

\* C7: two collinear members that meet end to end are reported as a Joint of
\* type INLINE in either operand order, and generate_joint_features returns
\* (None, None) for that joint.
C7_InlineEndToEnd ==
    (FIReturned /\ EndToEnd(last.member_a, last.member_b)) =>
        /\ last.result # None
        /\ last.result.joint_type = "INLINE"
        /\ \A relief \in {"NONE", "DOGBONE", "RADIUS", "TBONE"} :
              generate_joint_features(
                  TabSlotGenerator(ScenarioProfile, RInt(DefaultTabDepth), relief),
                  last.result) = [tab |-> NoFeature, slot |-> NoFeature]

\* the members of a list that are not degenerate, in order
RECURSIVE WithoutDegenerate(_)
WithoutDegenerate(ms) ==
    IF ms = <<>> THEN <<>>
    ELSE IF Degenerate(Head(ms)) THEN WithoutDegenerate(Tail(ms))
    ELSE <<Head(ms)>> \o WithoutDegenerate(Tail(ms))

\* C8: a degenerate member (length < 1e-6) is member_a or member_b of no joint
\* find_intersection or detect_all_joints emits, and the joints detected among
\* the other members are those detected without it.
C8_DegenerateSkipped ==
    /\ (FIReturned /\ last.result # None) =>
          ~Degenerate(last.result.member_a) /\ ~Degenerate(last.result.member_b)
    /\ DetectReturned =>
          /\ \A i \in 1..Len(last.result) :
                ~Degenerate(last.result[i].member_a) /\ ~Degenerate(last.result[i].member_b)
          /\ last.result = detect_all_joints(WithoutDegenerate(last.members), last.tolerance)

---------------------------------------------------------------------------
(* core/box_specs.py and core/box_generator.py: the frame members          *)
(* Dimensions are whole mm, the tube width is even, and the specs are such *)
(* that the support spacing (l - tw) / (n + 1) is a whole number of mm.    *)

BoxSpecsData(l, h, d, foot, v_front, v_back, h_top, h_bottom, ref, tabs) ==
    [length_mm |-> l, height_mm |-> h, depth_mm |-> d, foot_height_mm |-> foot,
     vertical_oc_front_mm |-> v_front, vertical_oc_back_mm |-> v_back,
     horizontal_oc_top_mm |-> h_top, horizontal_oc_bottom_mm |-> h_bottom,
     dimension_reference |-> ref, tabs_enabled |-> tabs]

\* int(x / y) for y > 0: the quotient truncated toward zero
TruncDiv(x, y) == IF x >= 0 THEN x \div y ELSE -((-x) \div y)

\* the body shared by the four calc_*_count methods
SupportCount(oc, usable) ==
    IF oc <= 0 THEN 0 ELSE Max(0, TruncDiv(usable, oc) - 1)

calc_vertical_count_front(s, tube_width_mm) ==
    SupportCount(s.vertical_oc_front_mm, s.length_mm - tube_width_mm)

calc_vertical_count_back(s, tube_width_mm) ==
    SupportCount(s.vertical_oc_back_mm, s.length_mm - tube_width_mm)

calc_horizontal_count_top(s, tube_width_mm) ==
    SupportCount(s.horizontal_oc_top_mm, s.depth_mm - tube_width_mm)

calc_horizontal_count_bottom(s, tube_width_mm) ==
    SupportCount(s.horizontal_oc_bottom_mm, s.depth_mm - tube_width_mm)

\* BoxFrameGenerator._calc_effective_dims
_calc_effective_dims(s, tw) ==
    LET extra == IF s.dimension_reference = "EXTERIOR" THEN 0
                 ELSE IF s.dimension_reference = "INTERIOR" THEN 2 * tw
                 ELSE tw
    IN  [eff_length |-> s.length_mm + extra, eff_height |-> s.height_mm + extra,
         eff_depth |-> s.depth_mm + extra]

FrameMember(member_type, face, position, length_mm, rotation, index) ==
    [member_type |-> member_type, face |-> face, position |-> position,
     length_mm |-> length_mm, rotation |-> rotation, name |-> "", index |-> index]

\* member_type.value.replace("_", " ").title(), with "_" for each " "
TypeTitle(member_type) ==
    CASE member_type = "corner_vertical" -> "Corner_Vertical"
      [] member_type = "vertical_support" -> "Vertical_Support"
      [] member_type = "horizontal_rail_top" -> "Horizontal_Rail_Top"
      [] member_type = "horizontal_rail_bottom" -> "Horizontal_Rail_Bottom"
      [] member_type = "depth_rail" -> "Depth_Rail"
      [] member_type = "cross_member_top" -> "Cross_Member_Top"
      [] member_type = "cross_member_bottom" -> "Cross_Member_Bottom"
      [] member_type = "foot" -> "Foot"

\* face.value.title()
FaceTitle(face) ==
    CASE face = "front" -> "Front" [] face = "back" -> "Back"
      [] face = "left" -> "Left" [] face = "right" -> "Right"
      [] face = "top" -> "Top" [] face = "bottom" -> "Bottom"

\* FrameMember.get_name
get_name(fm) ==
    IF fm.name # "" THEN fm.name
    ELSE TypeTitle(fm.member_type)
         \o (IF fm.face # "None" THEN "_" \o FaceTitle(fm.face) ELSE "")
         \o (IF fm.index > 0 THEN "_" \o ToString(fm.index) ELSE "")

\* the members of a generator loop that runs i over 1..n
Loop(n, member(_)) == [i \in 1..n |-> member(i)]

_gen_corner_verticals(e, tw) ==
    LET half == tw \div 2
        l == e.eff_length
        d == e.eff_depth
        vert_len == e.eff_height - 2 * tw
        corners == << <<"front", half, half>>, <<"front", l - half, half>>,
                      <<"back", half, d - half>>, <<"back", l - half, d - half>> >>
        member(i) == FrameMember("corner_vertical", corners[i][1],
                                 <<corners[i][2], corners[i][3], tw>>,
                                 vert_len, <<0, 0, 0>>, i)
    IN  Loop(4, member)

_gen_horizontal_rails(e, tw) ==
    LET half == tw \div 2
        d == e.eff_depth
        h == e.eff_height
        positions == << <<"front", half, half>>, <<"front", h - half, half>>,
                        <<"back", half, d - half>>, <<"back", h - half, d - half>> >>
        member(i) ==
            LET z == positions[i][2]
                y == positions[i][3]
            IN  FrameMember(IF z > half THEN "horizontal_rail_top"
                            ELSE "horizontal_rail_bottom",
                            positions[i][1], <<0, y, z>>, e.eff_length, <<0, 90, 0>>, i)
    IN  Loop(4, member)

_gen_depth_rails(e, tw) ==
    LET half == tw \div 2
        l == e.eff_length
        h == e.eff_height
        depth_len == e.eff_depth - 2 * tw
        corners == << <<"left", half, half>>, <<"left", half, h - half>>,
                      <<"right", l - half, half>>, <<"right", l - half, h - half>> >>
        member(i) == FrameMember("depth_rail", corners[i][1],
                                 <<corners[i][2], tw, corners[i][3]>>,
                                 depth_len, <<-90, 0, 0>>, i)
    IN  Loop(4, member)

\* spacing = (l - tw) / (n + 1), a whole number of mm on the specs used
Spacing(e, tw, n) == (e.eff_length - tw) \div (n + 1)

_gen_vertical_supports(s, e, tw) ==
    LET half == tw \div 2
        vert_len == e.eff_height - 2 * tw
        n_front == calc_vertical_count_front(s, tw)
        n_back == calc_vertical_count_back(s, tw)
        front(i) == FrameMember("vertical_support", "front",
                                <<Spacing(e, tw, n_front) * i, half, tw>>,
                                vert_len, <<0, 0, 0>>, i)
        back(i) == FrameMember("vertical_support", "back",
                               <<Spacing(e, tw, n_back) * i, e.eff_depth - half, tw>>,
                               vert_len, <<0, 0, 0>>, i)
    IN  (IF n_front > 0 /\ s.vertical_oc_front_mm > 0 THEN Loop(n_front, front) ELSE <<>>)
        \o (IF n_back > 0 /\ s.vertical_oc_back_mm > 0 THEN Loop(n_back, back) ELSE <<>>)

_gen_cross_members(s, e, tw) ==
    LET half == tw \div 2
        cross_len == e.eff_depth - 2 * tw
        n_top == calc_horizontal_count_top(s, tw)
        n_bottom == calc_horizontal_count_bottom(s, tw)
        top(i) == FrameMember("cross_member_top", "top",
                              <<Spacing(e, tw, n_top) * i, tw, e.eff_height - half>>,
                              cross_len, <<-90, 0, 0>>, i)
        bottom(i) == FrameMember("cross_member_bottom", "bottom",
                                 <<Spacing(e, tw, n_bottom) * i, tw, half>>,
                                 cross_len, <<-90, 0, 0>>, i)
    IN  (IF n_top > 0 /\ s.horizontal_oc_top_mm > 0 THEN Loop(n_top, top) ELSE <<>>)
        \o (IF n_bottom > 0 /\ s.horizontal_oc_bottom_mm > 0
            THEN Loop(n_bottom, bottom) ELSE <<>>)

_gen_feet(s, e, tw) ==
    LET half == tw \div 2
        l == e.eff_length
        d == e.eff_depth
        foot_h == s.foot_height_mm
        corners == << <<half, half>>, <<l - half, half>>,
                      <<half, d - half>>, <<l - half, d - half>> >>
        member(i) == FrameMember("foot", "bottom",
                                 <<corners[i][1], corners[i][2], -foot_h>>,
                                 foot_h, <<0, 0, 0>>, i)
    IN  Loop(4, member)

\* BoxFrameGenerator.generate_members
generate_members(s, e, tw) ==
    _gen_corner_verticals(e, tw) \o _gen_horizontal_rails(e, tw)
    \o _gen_depth_rails(e, tw) \o _gen_vertical_supports(s, e, tw)
    \o _gen_cross_members(s, e, tw)
    \o (IF s.foot_height_mm > 0 THEN _gen_feet(s, e, tw) ELSE <<>>)

---------------------------------------------------------------------------
(* core/jointed_box.py: JointedBoxGenerator                                *)
(* A generator is the record self of its fields.  jointed_members, a dict  *)
(* in the code, is the sequence of its values in insertion order, each     *)
(* carrying its key: assigning to an existing key replaces the value in    *)
(* place, assigning to a new key appends.                                  *)

\* a member's shape before create_parts has made it
NoShape == [made |-> FALSE, ops |-> <<>>]

\* JointedMember(member=fm, axis=axis) stored under key
JointedMember(key, fm, axis) ==
    [key |-> key, member |-> fm, axis |-> axis, joints |-> <<>>, tabs |-> <<>>,
     slots |-> <<>>, shape |-> NoShape]

\* key in d
DictHas(d, key) == \E i \in 1..Len(d) : d[i].key = key

DictIndex(d, key) == CHOOSE i \in 1..Len(d) : d[i].key = key

\* d[key] = value
DictSet(d, key, value) ==
    IF DictHas(d, key) THEN [d EXCEPT ![DictIndex(d, key)] = value]
    ELSE Append(d, value)

\* JointedBoxGenerator._create_member_axes
_create_member_axes(fms, tube) ==
    LET axis(i) ==
            LET fm == fms[i]
                px == fm.position[1]
                py == fm.position[2]
                pz == fm.position[3]
                rx == fm.rotation[1]
                ry == fm.rotation[2]
                end == IF Abs(Abs(rx) - 90) < 1 THEN <<px, py + fm.length_mm, pz>>
                       ELSE IF Abs(Abs(ry) - 90) < 1 THEN <<px + fm.length_mm, py, pz>>
                       ELSE <<px, py, pz + fm.length_mm>>
            IN  MemberAxis(get_name(fm), fm.position, end,
                           tube.outer_width_mm, tube.outer_height_mm)
    IN  Loop(Len(fms), axis)

\* joinery/joint_detector.py: members_from_frame_members(frame_members);
\* every axis gets the default tube size 50.8 mm as its width and height
members_from_frame_members(fms) ==
    [i \in 1..Len(fms) |->
        LET fm == fms[i]
            px == fm.position[1]
            py == fm.position[2]
            pz == fm.position[3]
            rx == fm.rotation[1]
            ry == fm.rotation[2]
            end == IF Abs(rx - 90) < 1 THEN <<px, py + fm.length_mm, pz>>
                   ELSE IF Abs(ry - 90) < 1 THEN <<px + fm.length_mm, py, pz>>
                   ELSE <<px, py, pz + fm.length_mm>>
            tube_size == <<254, 5>>
        IN  MemberAxis(get_name(fm), fm.position, end, tube_size, tube_size)]

\* lines 175-179 for the pairs i.. of zip(frame_members, member_axes)
RECURSIVE CreateEntries(_, _, _, _)
CreateEntries(d, fms, axes, i) ==
    IF i > Min(Len(fms), Len(axes)) THEN d
    ELSE CreateEntries(
             DictSet(d, axes[i].member_id, JointedMember(axes[i].member_id, fms[i], axes[i])),
             fms, axes, i + 1)

\* lines 175-179, creating an entry only for a member that has none yet
RECURSIVE AddMissingEntries(_, _, _, _)
AddMissingEntries(d, fms, axes, i) ==
    IF i > Min(Len(fms), Len(axes)) THEN d
    ELSE AddMissingEntries(
             IF DictHas(d, axes[i].member_id) THEN d
             ELSE Append(d, JointedMember(axes[i].member_id, fms[i], axes[i])),
             fms, axes, i + 1)

\* the appends of lines 182-189 in the order they are made: joint k is
\* appended under its member_a's id, then under its member_b's id
JointAppends(js) ==
    [k \in 1..2 * Len(js) |->
        LET joint == js[(k + 1) \div 2]
        IN  [key |-> IF k % 2 = 1 THEN joint.member_a.member_id
                     ELSE joint.member_b.member_id,
             joint |-> joint]]

\* the joints lines 182-189 append to the entry stored under key, in order
JointsFor(key, js) ==
    LET under(x) == x.key = key
        mine == SelectSeq(JointAppends(js), under)
    IN  [k \in 1..Len(mine) |-> mine[k].joint]

\* lines 182-189: each joint is appended to the entries of its two members
\* (an id that is no key of the dict gets nothing)
AssociateJoints(d, js) ==
    [i \in 1..Len(d) |-> [d[i] EXCEPT !.joints = @ \o JointsFor(d[i].key, js)]]

\* _build_jointed_members keeping the entries of an earlier generate()
_build_jointed_members_KeepEntries(d, fms, axes, js) ==
    AssociateJoints(AddMissingEntries(d, fms, axes, 1), js)

\* JointedBoxGenerator._build_jointed_members on the dict d
_build_jointed_members(d, fms, axes, js) ==
    AssociateJoints(CreateEntries(d, fms, axes, 1), js)

\* lines 193-201: the tabs appended to the entry stored under key, in order:
\* those of the joints, INLINE ones skipped, whose tab-bearer has that id
TabsFor(key, js, gen) ==
    LET bears(joint) == joint.joint_type # "INLINE" /\ joint.member_b.member_id = key
        mine == SelectSeq(js, bears)
        some(tab) == tab # NoFeature
    IN  SelectSeq([k \in 1..Len(mine) |-> generate_joint_features(gen, mine[k]).tab], some)

\* lines 193-204: the slots appended to the entry stored under key, in order:
\* those of the joints, INLINE ones skipped, whose slot-receiver has that id
SlotsFor(key, js, gen) ==
    LET receives(joint) == joint.joint_type # "INLINE" /\ joint.member_a.member_id = key
        mine == SelectSeq(js, receives)
        some(slot) == slot # NoFeature
    IN  SelectSeq([k \in 1..Len(mine) |-> generate_joint_features(gen, mine[k]).slot], some)

\* JointedBoxGenerator._generate_joint_features on the dict d
_generate_joint_features(d, js, gen) ==
    [i \in 1..Len(d) |->
        [d[i] EXCEPT !.tabs = @ \o TabsFor(d[i].key, js, gen),
                     !.slots = @ \o SlotsFor(d[i].key, js, gen)]]

\* lines 135-140 of generate for the members, axes and joints of lines 126-132
Generated(self, fms, axes, js) ==
    [self EXCEPT !.frame_members = fms, !.member_axes = axes, !.joints = js,
                 !.jointed_members =
                     _generate_joint_features(
                         _build_jointed_members(self.jointed_members, fms, axes, js),
                         js, self.tab_slot_gen),
                 !.generated = TRUE, !.gen_calls = @ + 1]

\* lines 129-132 of generate for the frame members fms
GenerateFrom(self, fms, axes) ==
    Generated(self, fms, axes, detect_all_joints(axes, DefaultTolerance))

\* JointedBoxGenerator.generate
generate(self) ==
    GenerateFrom(self,
                 generate_members(self.specs, self.eff, self.profile.outer_width_mm),
                 _create_member_axes(
                     generate_members(self.specs, self.eff, self.profile.outer_width_mm),
                     self.profile))

\* the guard dropped: generate() whatever _generated holds
EnsureGenerated_Always(self) == generate(self)

\* "if not self._generated: self.generate()"
EnsureGenerated(self) == IF ~self.generated THEN generate(self) ELSE self

\* lines 217-224: the (member_id, tab) pairs of the entries d[i..], in order
RECURSIVE AllTabs(_, _)
AllTabs(d, i) ==
    IF i > Len(d) THEN <<>>
    ELSE [k \in 1..Len(d[i].tabs) |-> <<d[i].key, d[i].tabs[k]>>] \o AllTabs(d, i + 1)

\* lines 217-224: the (member_id, slot) pairs of the entries d[i..], in order
RECURSIVE AllSlots(_, _)
AllSlots(d, i) ==
    IF i > Len(d) THEN <<>>
    ELSE [k \in 1..Len(d[i].slots) |-> <<d[i].key, d[i].slots[k]>>] \o AllSlots(d, i + 1)

\* no check_interference() has run
Unchecked == [run |-> FALSE, tabs |-> <<>>, slots |-> <<>>]

\* the interference check has run over exactly the tabs and slots d holds
CheckedOver(chk, d) ==
    chk.run /\ chk.tabs = AllTabs(d, 1) /\ chk.slots = AllSlots(d, 1)

\* lines 272-280 for one member: a cut per slot, then a fuse per tab
MemberOps(jm, after_check) ==
    [k \in 1..Len(jm.slots) |->
        [op |-> "cut", member_id |-> jm.key, feature |-> jm.slots[k],
         after_check |-> after_check]]
    \o [k \in 1..Len(jm.tabs) |->
        [op |-> "fuse", member_id |-> jm.key, feature |-> jm.tabs[k],
         after_check |-> after_check]]

\* the loop of create_parts (lines 255-289) over the entries d[i..]: the
\* boolean operations it performs, in order
RECURSIVE PartOps(_, _, _, _)
PartOps(d, joinery, after_check, i) ==
    IF i > Len(d) THEN <<>>
    ELSE (IF joinery THEN MemberOps(d[i], after_check) ELSE <<>>)
         \o PartOps(d, joinery, after_check, i + 1)

\* line 283: each member's shape is stored in its entry
StoreShapes(d, joinery, after_check) ==
    [i \in 1..Len(d) |->
        [d[i] EXCEPT !.shape =
            [made |-> TRUE,
             ops |-> IF joinery THEN MemberOps(d[i], after_check) ELSE <<>>]]]

---------------------------------------------------------------------------
(* core/end_cap.py: generate_end_caps_for_frame                            *)
(* The dict of caps is the sequence of its values in insertion order, each *)
(* carrying its key.                                                       *)

\* EndCap(spec=spec, member_id=member_id, end=end) stored under
\* f"{member_id}_{end}"
EndCap(member_id, end) ==
    [key |-> member_id \o "_" \o end, member_id |-> member_id, end |-> end]

\* lines 427-431: the (member id, end) pairs taken to have a joint
JointedEnds(js) ==
    UNION { { <<js[k].member_a.member_id, "end">>, <<js[k].member_b.member_id, "start">> } :
            k \in 1..Len(js) }

\* lines 434-452 for the frame members fms[i..]
RECURSIVE CapsFrom(_, _, _, _)
CapsFrom(caps, fms, jointed_ends, i) ==
    IF i > Len(fms) THEN caps
    ELSE LET member_id == get_name(fms[i])
             at_start == IF <<member_id, "start">> \notin jointed_ends
                         THEN DictSet(caps, member_id \o "_start",
                                      EndCap(member_id, "start"))
                         ELSE caps
             at_end == IF <<member_id, "end">> \notin jointed_ends
                       THEN DictSet(at_start, member_id \o "_end",
                                    EndCap(member_id, "end"))
                       ELSE at_start
         IN  CapsFrom(at_end, fms, jointed_ends, i + 1)

\* generate_end_caps_for_frame(frame_members, profile, joints)
generate_end_caps_for_frame(fms, js) == CapsFrom(<<>>, fms, JointedEnds(js), 1)

---------------------------------------------------------------------------
(* The generators the orchestrator is run on *)

\* a 450 x 300 x 250 mm box (exterior) on 25 mm feet, with one front vertical
\* support, one top cross member and tabs enabled
BaseSpecs == BoxSpecsData(450, 300, 250, 25, 200, 0, 100, 0, "EXTERIOR", TRUE)

\* box specifications: the base box and the boxes that differ from it in
\* the feet, the supports, the dimension reference or tabs_enabled
SpecsPool ==
    { BaseSpecs,
      [BaseSpecs EXCEPT !.foot_height_mm = 0],
      [BaseSpecs EXCEPT !.vertical_oc_front_mm = 0, !.horizontal_oc_top_mm = 0],
      [BaseSpecs EXCEPT !.vertical_oc_front_mm = 0, !.vertical_oc_back_mm = 200,
                        !.horizontal_oc_top_mm = 0, !.horizontal_oc_bottom_mm = 100],
      [BaseSpecs EXCEPT !.dimension_reference = "INTERIOR"],
      [BaseSpecs EXCEPT !.dimension_reference = "CENTERLINE"],
      [BaseSpecs EXCEPT !.tabs_enabled = FALSE],
      [BaseSpecs EXCEPT !.foot_height_mm = 0, !.vertical_oc_front_mm = 0,
                        !.horizontal_oc_top_mm = 0] }

Profiles == {ScenarioProfile}

\* JointedBoxGenerator.__init__(specs, profile, relief_type).  Lines 103-107
\* pass tab_depth_ratio to TabSlotGenerator, whose __init__ (tab_slot.py
\* 88-93) has no such parameter, so the call raises TypeError; the generator
\* modelled is the one this constructor builds once that call goes through,
\* whatever tab depth tab_slot_gen then holds.
Constructed(s, tube, tab_depth_mm, relief_type) ==
    [specs |-> s, profile |-> tube,
     eff |-> _calc_effective_dims(s, tube.outer_width_mm),
     tab_slot_gen |-> TabSlotGenerator(tube, tab_depth_mm, relief_type),
     frame_members |-> <<>>, member_axes |-> <<>>, joints |-> <<>>,
     jointed_members |-> <<>>, generated |-> FALSE, gen_calls |-> 0]

\* the tab depths tab_slot_gen may hold: the default of TabSlotGenerator, or
\* the tube width (specs.tab_depth_ratio = 1.0 of the mating width)
TabDepths(tube) == {RInt(DefaultTabDepth), RInt(tube.outer_width_mm)}

\* the generator as the record of its fields
Self ==
    [specs |-> specs, profile |-> profile, eff |-> eff, tab_slot_gen |-> tab_slot_gen,
     frame_members |-> frame_members, member_axes |-> member_axes, joints |-> joints,
     jointed_members |-> jointed_members, generated |-> generated,
     gen_calls |-> gen_calls]

\* the generator's fields become those of self
Becomes(self) ==
    /\ specs' = self.specs
    /\ profile' = self.profile
    /\ eff' = self.eff
    /\ tab_slot_gen' = self.tab_slot_gen
    /\ frame_members' = self.frame_members
    /\ member_axes' = self.member_axes
    /\ joints' = self.joints
    /\ jointed_members' = self.jointed_members
    /\ generated' = self.generated
    /\ gen_calls' = self.gen_calls

\* the most generate() calls made on one generator
MaxGenerate == 2

OrchInit ==
    /\ last = <<>>
    /\ \E s \in SpecsPool, tube \in Profiles :
         \E depth \in TabDepths(tube) :
            LET self == Constructed(s, tube, depth, "RADIUS")
            IN  /\ specs = self.specs /\ profile = self.profile /\ eff = self.eff
                /\ tab_slot_gen = self.tab_slot_gen
                /\ frame_members = self.frame_members
                /\ member_axes = self.member_axes /\ joints = self.joints
                /\ jointed_members = self.jointed_members
                /\ generated = self.generated /\ gen_calls = self.gen_calls
    /\ checked = Unchecked
    /\ booleans = <<>>
    /\ ManagerIdle

\* gen.generate()
Generate ==
    /\ gen_calls < MaxGenerate
    /\ Becomes(generate(Self))
    /\ UNCHANGED <<last, manager, checked, booleans>>

\* lines 216-226 of check_interference on the generated self: the tabs and
\* slots handed to check_all
CheckFeatures(self) ==
    /\ Becomes(self)
    /\ checked' = [run |-> TRUE, tabs |-> AllTabs(self.jointed_members, 1),
                   slots |-> AllSlots(self.jointed_members, 1)]
    /\ UNCHANGED <<last, manager, booleans>>

\* gen.check_interference()
CheckInterference == CheckFeatures(EnsureGenerated(Self))

\* lines 251-292 of create_parts on the generated self, with FreeCAD
\* available; each boolean operation records whether the interference check
\* had been run over the tabs and slots held when it was made
MakeParts(self, joinery, after_check) ==
    /\ Becomes([self EXCEPT !.jointed_members = StoreShapes(@, joinery, after_check)])
    /\ booleans' = PartOps(self.jointed_members, joinery, after_check, 1)
    /\ UNCHANGED <<last, manager, checked>>

\* create_parts on the generated self
CreatePartsOn(self, apply_joinery) ==
    MakeParts(self, apply_joinery /\ self.specs.tabs_enabled,
              CheckedOver(checked, self.jointed_members))

\* gen.create_parts(doc, apply_joinery=apply_joinery)
CreateParts(apply_joinery) == CreatePartsOn(EnsureGenerated(Self), apply_joinery)

\* create_jointed_box_frame(doc, specs, profile_name, relief_type): a
\* generator is constructed and create_parts(doc) called on it at once
CreateJointedBoxFrame ==
    /\ ~generated /\ gen_calls = 0 /\ checked = Unchecked /\ booleans = <<>>
    /\ CreateParts(TRUE)

OrchNext ==
    \/ Generate
    \/ CheckInterference
    \/ \E apply_joinery \in BOOLEAN : CreateParts(apply_joinery)
    \/ CreateJointedBoxFrame

OrchSpec == OrchInit /\ [][OrchNext]_vars

---------------------------------------------------------------------------
(* One generator regenerated after its specs were changed                  *)
(* The generator and its frame_gen hold the caller's BoxSpecsData object   *)
(* (jointed_box.py 97, box_generator.py 106), a mutable dataclass: an       *)
(* assignment to one of its fields is seen by the next generate().          *)

\* the caller removes the feet, the front vertical supports or the top
\* cross members from the specs
SetSpecs ==
    /\ \E s \in { [specs EXCEPT !.foot_height_mm = 0],
                   [specs EXCEPT !.vertical_oc_front_mm = 0],
                   [specs EXCEPT !.horizontal_oc_top_mm = 0] } :
          s # specs /\ specs' = s
    /\ UNCHANGED <<last, manager, profile, eff, tab_slot_gen, frame_members, member_axes, joints,
                   jointed_members, generated, gen_calls, checked, booleans>>

RegenInit ==
    /\ OrchInit
    /\ specs = BaseSpecs
    /\ tab_slot_gen.tab_depth_mm = RInt(DefaultTabDepth)

RegenNext ==
    \/ Generate
    \/ SetSpecs
    \/ CheckInterference

RegenSpec == RegenInit /\ [][RegenNext]_vars

---------------------------------------------------------------------------
(* Properties of the orchestrator *)

\* the lists generate() builds for each member, under the member's id
MemberFeatures(d) ==
    [i \in 1..Len(d) |->
        [key |-> d[i].key, joints |-> d[i].joints, tabs |-> d[i].tabs,
         slots |-> d[i].slots]]

---------------------------------------------------------------------------
(* Calls of the profile, tab/slot, relief and interference functions *)

\* a 4 mm wide, 10 mm deep, 2 mm thick tab at pos
PTab(pos, dir, n) ==
    TabGeometry(RInt(4), RInt(10), RInt(2), pos, AxisVector(dir), n, RInt(0))

\* the tab of the joint of A and the vertical member Thin standing on it
GeneratedTab ==
    calc_tab_geometry(TabSlotGenerator(ScenarioProfile, RInt(DefaultTabDepth), "RADIUS"),
                      find_intersection(PoolMember("A"), PoolMember("Thin"),
                                        DefaultTolerance),
                      "TOP")

\* (id, tab) pairs; the box of T0 is x -2..12, y -2..2, z -1..1
TabPool ==
    { <<"T0", PTab(RPoint(<<0, 0, 0>>), <<1, 0, 0>>, <<0, 0, 1>>)>>,
      <<"Dup", PTab(RPoint(<<0, 0, 0>>), <<1, 0, 0>>, <<0, 0, 1>>)>>,    \* Scenario D
      <<"Over", PTab(RPoint(<<5, 1, 0>>), <<1, 0, 0>>, <<0, 0, 1>>)>>,   \* overlaps T0
      <<"Touch", PTab(RPoint(<<14, 0, 0>>), <<1, 0, 0>>, <<0, 0, 1>>)>>, \* touches T0
      <<"Near", PTab(<<Rat(143, 10), RInt(0), RInt(0)>>, <<1, 0, 0>>, <<0, 0, 1>>)>>,
                                                                        \* 0.3 mm from T0
      <<"Half", PTab(<<Rat(29, 2), RInt(0), RInt(0)>>, <<1, 0, 0>>, <<0, 0, 1>>)>>,
                                                                        \* 0.5 mm from T0
      <<"Gap1", PTab(RPoint(<<15, 0, 0>>), <<1, 0, 0>>, <<0, 0, 1>>)>>,  \* 1 mm from T0
      <<"SideY", PTab(RPoint(<<0, 10, 0>>), <<1, 0, 0>>, <<0, 0, 1>>)>>, \* 6 mm off in y
      <<"NormY", PTab(RPoint(<<0, 0, 20>>), <<1, 0, 0>>, <<0, 1, 0>>)>>, \* thickness along y
      <<"AlongZ", PTab(RPoint(<<0, 0, -40>>), <<0, 0, 1>>, <<1, 0, 0>>)>>,
      <<"Gen", GeneratedTab>> }

TabTolerances == {RInt(0), DefaultTabTolerance, RInt(2)}

\* a 4 mm wide, 6 mm deep, 13 mm long slot at pos, cut along +z
PSlot(pos) ==
    SlotGeometry(RInt(4), RInt(6), RInt(13), pos, <<0, 0, 1>>, <<1, 0, 0>>,
                 "RADIUS", Rat(3, 2))

\* the slot of the joint of A and Thin
GeneratedSlot ==
    calc_slot_geometry(TabSlotGenerator(ScenarioProfile, RInt(DefaultTabDepth), "RADIUS"),
                       find_intersection(PoolMember("A"), PoolMember("Thin"),
                                         DefaultTolerance),
                       "TOP")

\* (id, slot) pairs; the box of S0 is x -6.5..6.5, y -6.5..6.5, z -6.5..12.5
SlotPool ==
    { <<"S0", PSlot(RPoint(<<0, 0, 0>>))>>,
      <<"SDup", PSlot(RPoint(<<0, 0, 0>>))>>,
      <<"S10", PSlot(RPoint(<<10, 0, 0>>))>>,   \* overlaps S0 by 3 mm
      <<"S11", PSlot(RPoint(<<11, 0, 0>>))>>,   \* overlaps S0 by 2 mm
      <<"S13", PSlot(RPoint(<<13, 0, 0>>))>>,   \* touches S0
      <<"S14", PSlot(RPoint(<<14, 0, 0>>))>>,   \* 1 mm from S0
      <<"S16", PSlot(RPoint(<<16, 0, 0>>))>>,   \* 3 mm from S0
      <<"S20", PSlot(RPoint(<<20, 0, 0>>))>>,   \* 7 mm from S0
      <<"SGen", GeneratedSlot>> }

MinWebs == {DefaultMinWeb, RInt(1)}

\* the longest list of tabs or slots given to a check
MaxFeatures == 3

\* the lists of at most n features of the pool
RECURSIVE FeatureLists(_, _)
FeatureLists(pool, n) ==
    IF n = 0 THEN {<<>>}
    ELSE LET shorter == FeatureLists(pool, n - 1)
         IN  shorter \cup
             { Append(fs, f) : fs \in {x \in shorter : Len(x) = n - 1}, f \in pool }

\* no id is given to two features of the list
DistinctFeatureIds(fs) == \A i, j \in 1..Len(fs) : i # j => fs[i][1] # fs[j][1]

\* profiles: Scenario C's; tolerances all zero; a negative slot clearance; a
\* tab undersize that makes the tab wider than the slot; a zero wall; a zero
\* outer width; the default tolerances on a 2 mm wall
ProfilePool ==
    { ScenarioProfile,
      TubeProfile(50, 50, RInt(3), RInt(0), RInt(0), RInt(0), Rat(3, 2)),
      TubeProfile(50, 50, RInt(3), Rat(-1, 10), Rat(1, 20), Rat(3, 20), Rat(3, 2)),
      TubeProfile(50, 50, RInt(3), Rat(1, 10), RInt(-1), Rat(3, 20), Rat(3, 2)),
      TubeProfile(50, 50, RInt(0), Rat(1, 10), Rat(1, 20), Rat(3, 20), Rat(3, 2)),
      TubeProfile(0, 50, RInt(3), Rat(1, 10), Rat(1, 20), Rat(3, 20), Rat(3, 2)),
      TubeProfile(40, 40, RInt(2), Rat(1, 10), Rat(1, 20), Rat(3, 20), Rat(3, 2)) }

\* keyword arguments of TabSlotGenerator(profile, ...): the defaults, a fixed
\* depth, and the ratio JointedBoxGenerator.__init__ passes
GeneratorKwargs ==
    { [relief_type |-> "RADIUS"],
      [tab_depth_mm |-> RInt(15), relief_type |-> "DOGBONE"],
      [tab_depth_ratio |-> Rat(3, 5), relief_type |-> "RADIUS"],
      [tab_depth_ratio |-> RInt(1), relief_type |-> "RADIUS"] }

\* the joints features are generated for
FeatureJoints ==
    { find_intersection(PoolMember(ids[1]), PoolMember(ids[2]), DefaultTolerance) :
        ids \in {<<"A", "T0">>, <<"V", "H">>, <<"A", "Thin">>, <<"A", "Sk">>,
                 <<"I1", "A">>, <<"A", "Up">>, <<"V", "Yv">>, <<"A", "Sk2">>,
                 <<"T25", "A">>, <<"H", "V">>, <<"Sk", "A">>} }

Processes ==
    {"laser", "Laser", "fiber laser", "Fiber Laser", "co2 laser", "plasma", "PLASMA",
     "waterjet", "Waterjet", "cnc", "CNC", "mill", "router", "Router", "oxyfuel", ""}

CornerRadii == {RInt(0), Rat(1, 20), Rat(1, 10), Rat(1, 5), Rat(3, 2)}

\* slot widths, lengths and relief radii (mm) of the relief shapes
ReliefWidths == {RInt(4), calc_slot_width(ScenarioProfile)}

ReliefLengths == {RInt(13), RInt(50)}

ReliefRadii == {RInt(0), Rat(1, 2), Rat(3, 2), RInt(3)}

\* slots cut along +z at the origin, with every relief type and radius
ReliefSlots ==
    { SlotGeometry(w, RInt(6), l, RPoint(<<0, 0, 0>>), <<0, 0, 1>>, <<1, 0, 0>>, rt, r) :
        w \in ReliefWidths, l \in ReliefLengths, rt \in {"RADIUS", "DOGBONE", "NONE"},
        r \in ReliefRadii }

\* the members of the frames given end caps: A with a member starting on it,
\* one ending on it and one continuing it, and Scenario B's corner
CapPool ==
    {m \in MemberPool : m.member_id \in {"A", "T0", "V", "H", "I1"}}
    \cup {Sq("Te", <<500, -500, 0>>, <<500, 0, 0>>)}

\* a FrameMember named as the axis, from its start and of its length
FrameOf(ms) ==
    [i \in 1..Len(ms) |->
        [FrameMember("depth_rail", "None", ms[i].start, length(ms[i]), <<0, 0, 0>>, 0)
            EXCEPT !.name = ms[i].member_id]]

FeatureCalls ==
    { [op |-> "check_tab_tab_interference", tabs |-> ts, tolerance |-> tol,
       pc |-> "call", result |-> <<>>] :
          ts \in {x \in FeatureLists(TabPool, MaxFeatures) : DistinctFeatureIds(x)},
          tol \in TabTolerances }
    \cup
    { [op |-> "check_slot_slot_interference", slots |-> ss, min_web |-> web,
       pc |-> "call", result |-> <<>>] :
          ss \in {x \in FeatureLists(SlotPool, MaxFeatures) : DistinctFeatureIds(x)},
          web \in MinWebs }
    \cup
    { [op |-> "calc_fit_clearance", profile |-> tube, pc |-> "call", result |-> <<>>] :
          tube \in ProfilePool }
    \cup
    { [op |-> "generate_joint_features", profile |-> tube, kwargs |-> kw, joint |-> j,
       pc |-> "call", result |-> <<>>] :
          tube \in ProfilePool, kw \in GeneratorKwargs, j \in FeatureJoints }
    \cup
    { [op |-> "recommend_relief_type", cutting_process |-> proc,
       tab_corner_radius |-> r, pc |-> "call", result |-> ""] :
          proc \in Processes, r \in CornerRadii }
    \cup
    { [op |-> "create_dogbone_relief", slot_width |-> w, slot_length |-> l,
       slot_depth |-> RInt(6), radius |-> r, pc |-> "call", result |-> <<>>] :
          w \in ReliefWidths, l \in ReliefLengths, r \in ReliefRadii \ {RInt(0)} }
    \cup
    { [op |-> "create_slot_shape", slot |-> slot, pc |-> "call", result |-> <<>>] :
          slot \in ReliefSlots }
    \cup
    { [op |-> "generate_end_caps_for_frame", frame_members |-> FrameOf(ms),
       joints |-> detect_all_joints(ms, DefaultTolerance),
       pc |-> "call", result |-> <<>>] :
          ms \in {x \in FeatureLists(CapPool, MaxFeatures) :
                    \A i, j \in 1..Len(x) : i # j => x[i].member_id # x[j].member_id} }
    \cup
    { [op |-> "members_from_frame_members", profile |-> tube,
       frame_members |-> generate_members(
                             sp, _calc_effective_dims(sp, tube.outer_width_mm),
                             tube.outer_width_mm),
       pc |-> "call", result |-> <<>>] :
          sp \in SpecsPool, tube \in Profiles }

Returns(value) ==
    /\ last.pc = "call"
    /\ last' = [last EXCEPT !.pc = "return", !.result = value]
    /\ UNCHANGED <<orch_vars, manager>>

CheckTabTab ==
    /\ last.op = "check_tab_tab_interference"
    /\ Returns(check_tab_tab_interference(last.tabs, last.tolerance))

CheckSlotSlot ==
    /\ last.op = "check_slot_slot_interference"
    /\ Returns(check_slot_slot_interference(last.slots, last.min_web))

\* the profile's slot width, tab width, fit clearance and total clearance
CalcFitClearance ==
    /\ last.op = "calc_fit_clearance"
    /\ Returns([slot_width |-> calc_slot_width(last.profile),
                tab_width |-> calc_tab_width(last.profile),
                fit_clearance |-> calc_fit_clearance(last.profile),
                total_clearance_mm |-> total_clearance_mm(last.profile)])

\* gen.generate_joint_features(joint) when gen was constructed, the error
\* of the construction otherwise
FeaturesOf(gen, joint) ==
    IF gen = TypeError THEN [error |-> "TypeError", tab |-> NoFeature, slot |-> NoFeature]
    ELSE [error |-> "None",
          tab |-> generate_joint_features(gen, joint).tab,
          slot |-> generate_joint_features(gen, joint).slot]

\* TabSlotGenerator(profile, **kwargs).generate_joint_features(joint)
GenerateJointFeatures ==
    /\ last.op = "generate_joint_features"
    /\ Returns(FeaturesOf(NewTabSlotGenerator(last.profile, last.kwargs), last.joint))

RecommendReliefType ==
    /\ last.op = "recommend_relief_type"
    /\ Returns(recommend_relief_type(last.cutting_process, last.tab_corner_radius))

CreateDogboneRelief ==
    /\ last.op = "create_dogbone_relief"
    /\ Returns(create_dogbone_relief(last.slot_width, last.slot_length, last.slot_depth,
                                     last.radius))

CreateSlotShape ==
    /\ last.op = "create_slot_shape"
    /\ Returns(create_slot_shape(last.slot))

GenerateEndCapsForFrame ==
    /\ last.op = "generate_end_caps_for_frame"
    /\ Returns(generate_end_caps_for_frame(last.frame_members, last.joints))

MembersFromFrameMembers ==
    /\ last.op = "members_from_frame_members"
    /\ Returns(members_from_frame_members(last.frame_members))

FeatureInit == last \in FeatureCalls /\ OrchIdle /\ ManagerIdle

FeatureNext ==
    \/ CheckTabTab
    \/ CheckSlotSlot
    \/ CalcFitClearance
    \/ GenerateJointFeatures
    \/ RecommendReliefType
    \/ CreateDogboneRelief
    \/ CreateSlotShape
    \/ MembersFromFrameMembers
    \/ GenerateEndCapsForFrame

FeatureSpec == FeatureInit /\ [][FeatureNext]_vars

\* the call op has returned
Returned(op) == last.op = op /\ last.pc = "return"

---------------------------------------------------------------------------
(* Properties of the interference checks *)

Lo(box) == <<box.min_x, box.min_y, box.min_z>>

Hi(box) == <<box.max_x, box.max_y, box.max_z>>

\* the gap between two boxes along axis k; negative when they overlap there
Gap(a, b, k) == RMax(RSub(Lo(b)[k], Hi(a)[k]), RSub(Lo(a)[k], Hi(b)[k]))

\* the boxes share a point
Overlap(a, b) == \A k \in 1..3 : RLe(Gap(a, b, k), RInt(0))

\* the boxes are at least d apart along some axis
SeparatedBy(a, b, d) == \E k \in 1..3 : RLe(d, Gap(a, b, k))

\* the boxes are more than d apart along some axis
SeparatedByMore(a, b, d) == \E k \in 1..3 : RLt(d, Gap(a, b, k))

\* the number of interferences of the kind reported for features ida, idb
Reported(result, kind, what, ida, idb) ==
    Cardinality({k \in 1..Len(result) :
                    /\ result[k].interference_type = kind
                    /\ result[k].feature_a = what \o ida
                    /\ result[k].feature_b = what \o idb})

\* the box of the i-th tab of the latest call
TabBox(i) == from_tab(last.tabs[i][2])

\* the box of the i-th slot of the latest call
SlotBox(i) == from_slot(last.slots[i][2])

\* the number of TAB_TAB interferences reported for tabs i and j
TabsReported(i, j) ==
    Reported(last.result, "TAB_TAB", "Tab from ", last.tabs[i][1], last.tabs[j][1])

\* C12: every pair of slots whose boxes are not separated by at least
\* min_web (they overlap, touch, or are less than min_web apart) is reported
\* as a SLOT_SLOT interference by check_slot_slot_interference.
C12_SlotWebReported ==
    Returned("check_slot_slot_interference") =>
        \A i, j \in 1..Len(last.slots) :
            (i < j /\ ~SeparatedBy(SlotBox(i), SlotBox(j), last.min_web)) =>
                Reported(last.result, "SLOT_SLOT", "Slot from ",
                         last.slots[i][1], last.slots[j][1]) >= 1

\* C13: for any tolerance >= 0, every pair of tabs whose boxes overlap, two
\* identical tabs in particular, is reported by check_tab_tab_interference
\* as exactly one TAB_TAB interference naming the pair.
C13_OverlappingTabsReported ==
    (Returned("check_tab_tab_interference") /\ RLe(RInt(0), last.tolerance)) =>
        \A i, j \in 1..Len(last.tabs) :
            (i < j /\ (Overlap(TabBox(i), TabBox(j)) \/ last.tabs[i][2] = last.tabs[j][2])) =>
                TabsReported(i, j) = 1

\* two identical tabs were checked, with a third
C13_Witness ==
    /\ Returned("check_tab_tab_interference")
    /\ Len(last.tabs) = 3
    /\ \E i, j \in 1..3 : i < j /\ last.tabs[i][2] = last.tabs[j][2]
    /\ Len(last.result) >= 1

\* C14 as stated: two tabs whose boxes do not touch (a positive gap along at
\* least one axis) are never reported with the default tolerance.
C14_ApartNotReported_AnyGap ==
    (Returned("check_tab_tab_interference") /\ last.tolerance = DefaultTabTolerance) =>
        \A i, j \in 1..Len(last.tabs) :
            (i < j /\ SeparatedByMore(TabBox(i), TabBox(j), RInt(0))) =>
                TabsReported(i, j) = 0

\* C14 (amended): two tabs whose boxes are more than the tolerance apart along
\* at least one axis (more than 0.5 mm with the default tolerance) are never
\* reported as a TAB_TAB interference.
C14_ApartNotReported ==
    Returned("check_tab_tab_interference") =>
        \A i, j \in 1..Len(last.tabs) :
            (i < j /\ SeparatedByMore(TabBox(i), TabBox(j), last.tolerance)) =>
                TabsReported(i, j) = 0

\* a check with the default tolerance of tabs of which two are more than
\* 0.5 mm apart and two are reported
C14_Witness ==
    /\ Returned("check_tab_tab_interference")
    /\ last.tolerance = DefaultTabTolerance
    /\ \E i, j \in 1..Len(last.tabs) :
          i < j /\ SeparatedByMore(TabBox(i), TabBox(j), DefaultTabTolerance)
    /\ Len(last.result) >= 1

\* the tab's direction and normal are along coordinate axes and perpendicular
AxisAlignedTab(tab) ==
    /\ tab.direction.n2 = 1
    /\ _dot(tab.normal, tab.normal) = 1
    /\ _dot(tab.direction.v, tab.normal) = 0

\* the corners of the tab solid: position + s*direction + u*normal +
\* v*(direction x normal), s in {0, depth}, u = +-thickness/2, v = +-width/2
TabCorners(tab) ==
    { [k \in 1..3 |->
          RAdd(tab.position[k],
               RAdd(RMul(RInt(tab.direction.v[k]), c[1]),
                    RAdd(RMul(RInt(tab.normal[k]), c[2]),
                         RMul(RInt(_cross(tab.direction.v, tab.normal)[k]), c[3]))))] :
      c \in {RInt(0), tab.depth}
            \X {RDiv(tab.thickness, RInt(2)), RNeg(RDiv(tab.thickness, RInt(2)))}
            \X {RDiv(tab.width, RInt(2)), RNeg(RDiv(tab.width, RInt(2)))} }

\* the point is in the box
Contains(box, pt) ==
    \A k \in 1..3 : RLe(Lo(box)[k], pt[k]) /\ RLe(pt[k], Hi(box)[k])

\* the smallest box around the tab solid
SolidBox(tab) ==
    LET cs == TabCorners(tab)
        lo(k) == CHOOSE x \in {c[k] : c \in cs} : \A c \in cs : RLe(x, c[k])
        hi(k) == CHOOSE x \in {c[k] : c \in cs} : \A c \in cs : RLe(c[k], x)
    IN  BoundingBox(lo(1), lo(2), lo(3), hi(1), hi(2), hi(3))

\* C15: for every tab with axis-aligned, perpendicular direction and normal,
\* BoundingBox.from_tab contains the whole tab solid, so that two such tabs
\* whose solids overlap are reported.
C15_BoxContainsTab ==
    /\ Returned("check_tab_tab_interference") =>
          \A i \in 1..Len(last.tabs) :
              AxisAlignedTab(last.tabs[i][2]) =>
                  \A pt \in TabCorners(last.tabs[i][2]) : Contains(TabBox(i), pt)
    /\ (Returned("check_tab_tab_interference") /\ RLe(RInt(0), last.tolerance)) =>
          \A i, j \in 1..Len(last.tabs) :
              (/\ i < j
               /\ AxisAlignedTab(last.tabs[i][2])
               /\ AxisAlignedTab(last.tabs[j][2])
               /\ Overlap(SolidBox(last.tabs[i][2]), SolidBox(last.tabs[j][2]))) =>
                  TabsReported(i, j) >= 1

---------------------------------------------------------------------------
(* Properties of the profile, the tab/slot generator and the relief type *)

\* the tolerances of the profile that enter the tab and slot widths
WidthTolerances(tube) ==
    {tube.slot_clearance_mm, tube.tab_undersize_mm, tube.kerf_compensation_mm,
     tube.corner_relief_radius_mm}

\* C16: for every profile with a positive wall thickness and non-negative
\* tolerances that is accepted, calc_tab_width() < calc_slot_width() and
\* calc_slot_width() - calc_tab_width() = calc_fit_clearance() =
\* slot_clearance + tab_undersize + 2 * kerf_compensation =
\* total_clearance_mm; Scenario C's profile gives 3.425, 2.975 and 0.45.
C16_FitInvariant ==
    Returned("calc_fit_clearance") =>
        /\ (/\ RGt(last.profile.wall_thickness_mm, RInt(0))
            /\ \A t \in WidthTolerances(last.profile) : RLe(RInt(0), t)) =>
               /\ RLt(last.result.tab_width, last.result.slot_width)
               /\ RSub(last.result.slot_width, last.result.tab_width)
                      = last.result.fit_clearance
               /\ last.result.fit_clearance = last.result.total_clearance_mm
               /\ last.result.total_clearance_mm =
                      RAdd(RAdd(last.profile.slot_clearance_mm,
                                last.profile.tab_undersize_mm),
                           RMul(RInt(2), last.profile.kerf_compensation_mm))
        /\ last.profile = ScenarioProfile =>
               /\ last.result.slot_width = Rat(3425, 1000)
               /\ last.result.tab_width = Rat(2975, 1000)
               /\ last.result.fit_clearance = Rat(45, 100)

\* the profile is invalid for joinery: the slot is not wider than the tab, an
\* outer dimension or the wall thickness is not positive, or a tolerance is
\* negative
InvalidProfile(tube) ==
    \/ RLe(calc_slot_width(tube), calc_tab_width(tube))
    \/ tube.outer_width_mm <= 0
    \/ tube.outer_height_mm <= 0
    \/ RLe(tube.wall_thickness_mm, RInt(0))
    \/ \E t \in WidthTolerances(tube) : RLt(t, RInt(0))

\* C17: a profile that is invalid for joinery is rejected with an error by
\* the time a TabSlotGenerator is built from it, and no TabGeometry or
\* SlotGeometry is produced from it.
C17_InvalidProfileRejected ==
    (Returned("generate_joint_features") /\ InvalidProfile(last.profile)) =>
        /\ last.result.error # "None"
        /\ last.result.tab = NoFeature
        /\ last.result.slot = NoFeature

\* C18: a TabSlotGenerator constructed with a tab-depth ratio, as
\* JointedBoxGenerator.__init__ constructs it, is created without error and
\* every tab it generates has depth = width of the slot-receiving member x
\* ratio; constructed with a fixed depth, every tab has that depth.
C18_RatioDepthPolicy ==
    Returned("generate_joint_features") =>
        /\ last.result.error = "None"
        /\ last.result.tab # NoFeature =>
              /\ "tab_depth_ratio" \in DOMAIN last.kwargs =>
                    last.result.tab.depth =
                        calc_tab_depth(RInt(last.joint.member_a.width),
                                       last.kwargs.tab_depth_ratio)
              /\ "tab_depth_mm" \in DOMAIN last.kwargs =>
                    last.result.tab.depth = last.kwargs.tab_depth_mm

\* what a Joint records besides its type, members, point, parameters and faces
Diagnostics(joint) ==
    DOMAIN joint \ {"joint_type", "member_a", "member_b", "intersection_point",
                    "param_a", "param_b", "tab_face", "slot_face"}

\* C19: every SKEW joint carries a warning that tells it from a T_JOINT or
\* CORNER: no tab or slot of a SKEW joint is added to a member's feature
\* lists without a warning recorded on the joint.
C19_SkewWarned ==
    (FIReturned /\ last.result.joint_type = "SKEW") =>
        LET gen == TabSlotGenerator(ScenarioProfile, RInt(DefaultTabDepth), "RADIUS")
            js == <<last.result>>
        IN  (\/ TabsFor(last.result.member_b.member_id, js, gen) # <<>>
             \/ SlotsFor(last.result.member_a.member_id, js, gen) # <<>>) =>
                Diagnostics(last.result) # {}

\* C20: recommend_relief_type returns RADIUS for every process when
\* tab_corner_radius > 0; with tab_corner_radius = 0 it returns DOGBONE for
\* plasma, cnc, mill and router and RADIUS for laser, waterjet and every
\* unknown process.
C20_ReliefRecommendation ==
    Returned("recommend_relief_type") =>
        IF RGt(last.tab_corner_radius, RInt(0)) THEN last.result = "RADIUS"
        ELSE IF Lower(last.cutting_process) \in {"plasma", "cnc", "mill", "router"}
             THEN last.result = "DOGBONE"
             ELSE last.result = "RADIUS"

---------------------------------------------------------------------------
(* Properties of the dogbone relief *)

\* pt lies on or inside the circle of the cylinder
InCircle(cyl, pt) ==
    LET dx == RSub(pt[1], cyl.center[1])
        dy == RSub(pt[2], cyl.center[2])
    IN  RLe(RAdd(RMul(dx, dx), RMul(dy, dy)), RMul(cyl.radius, cyl.radius))

\* some cylinder of the shape reaches the slot corner
CornerReached(shape, corner) ==
    \E i \in 1..Len(shape.cylinders) : InCircle(shape.cylinders[i], corner)

\* C21: under DOGBONE relief with a radius r > 0, each of the four slot
\* corners lies on or inside a relief circle of radius r, in the relief shape
\* of create_dogbone_relief and in the slot shape of create_slot_shape.
C21_DogboneReachesCorner ==
    /\ Returned("create_dogbone_relief") /\ RGt(last.radius, RInt(0))
          => \A i \in 1..4 : CornerReached(last.result, last.result.corners[i])
    /\ Returned("create_slot_shape") /\ last.slot.relief_type = "DOGBONE"
          /\ RGt(last.slot.relief_radius, RInt(0))
          => \A i \in 1..4 : CornerReached(last.result, last.result.corners[i])

---------------------------------------------------------------------------
(* Properties of the features and entries generate() leaves *)

\* the indexes of the non-INLINE joints of js
NonInline(js) == {k \in 1..Len(js) : js[k].joint_type # "INLINE"}

\* the ids of the members of axes
MemberIds(axes) == {axes[i].member_id : i \in 1..Len(axes)}

---------------------------------------------------------------------------
(* Properties of the tab and slot geometry *)

\* generate_joint_features has returned the tab and slot of a joint, the
\* generator being one of a valid profile
FeaturesReturned ==
    /\ Returned("generate_joint_features")
    /\ ~InvalidProfile(last.profile)
    /\ last.result.error = "None"
    /\ last.joint.joint_type # "INLINE"

\* the member's axis runs along x, y or z
AxisAlignedMember(m) == \E k \in 1..3 : Abs(direction(m)[k]) = DirScale

\* the endpoint of the tab-bearer the tab is placed at
TabBase(joint) ==
    IF RGt(joint.param_b, <<1, 2>>) THEN joint.member_b.end ELSE joint.member_b.start

\* C23: the normal of the tab generated for a T_JOINT or CORNER joint of
\* axis-aligned members is a unit vector perpendicular to the tab-bearer's
\* axis direction and to the tab's extrusion direction.
C23_TabNormalPerpendicular ==
    (/\ FeaturesReturned
     /\ last.joint.joint_type \in {"T_JOINT", "CORNER"}
     /\ AxisAlignedMember(last.joint.member_a)
     /\ AxisAlignedMember(last.joint.member_b))
    => LET tab == last.result.tab
       IN  /\ _dot(tab.normal, tab.normal) = 1
           /\ _dot(tab.normal, direction(last.joint.member_b)) = 0
           /\ _dot(tab.normal, tab.direction.v) = 0

\* C24: the slot position is the slot-receiver's axis point at param_a moved
\* by half the tube height along the slot direction, and on the axis the
\* slot is moved along it is moved toward the tab-bearer's base endpoint
\* whenever that endpoint is displaced from the axis point on that axis.
C24_SlotFacesTab ==
    FeaturesReturned
    => LET slot == last.result.slot
           joint == last.joint
           axis_point == point_at_param(joint.member_a, joint.param_a)
           offset == [k \in 1..3 |-> RSub(slot.position[k], axis_point[k])]
           toward == [k \in 1..3 |-> RSub(RInt(TabBase(joint)[k]), axis_point[k])]
           half == Rat(last.profile.outer_height_mm, 2)
       IN  /\ offset = [k \in 1..3 |-> RMul(RInt(slot.direction[k]), half)]
           /\ \A k \in 1..3 :
                 (slot.direction[k] # 0 /\ toward[k] # RInt(0))
                 => RGt(RMul(offset[k], toward[k]), RInt(0))

\* C25: the along of a generated slot is a unit vector perpendicular to the
\* slot's cut direction and, when the tab-bearer's axis has a non-zero
\* projection onto the plane perpendicular to the cut direction, parallel to
\* that projection, for SKEW joints as for perpendicular ones.
C25_AlongFollowsTabAxis ==
    FeaturesReturned
    => LET slot == last.result.slot
           d == direction(last.joint.member_b)
           n == slot.direction
           projection == [k \in 1..3 |-> d[k] - _dot(d, n) * n[k]]
       IN  /\ _dot(slot.along, slot.along) = 1
           /\ _dot(slot.along, n) = 0
           /\ projection # <<0, 0, 0>> => _cross(slot.along, projection) = <<0, 0, 0>>

---------------------------------------------------------------------------
(* Properties of the joint parameters *)

\* the rational t lies in [0, 1]
InUnitInterval(t) == RLe(RInt(0), t) /\ RLe(t, RInt(1))

\* the point pt lies in the box spanned by the member's endpoints
WithinEndpoints(m, pt) ==
    \A k \in 1..3 :
        /\ RLe(RInt(Min(m.start[k], m.end[k])), pt[k])
        /\ RLe(pt[k], RInt(Max(m.start[k], m.end[k])))

\* C26: in every joint find_intersection returns, param_a and param_b lie in
\* [0, 1]; param_a is the clamped parameter of the operand stored as
\* Joint.member_a and param_b that of the operand stored as Joint.member_b,
\* whether or not the roles are swapped relative to the operand order; and
\* member_a's point at param_a lies on member_a's segment.
C26_ParamsFollowRoles ==
    (FIReturned /\ last.result # None)
    => LET j == last.result
       IN  /\ InUnitInterval(j.param_a)
           /\ InUnitInterval(j.param_b)
           /\ \/ /\ j.member_a = last.member_a /\ j.member_b = last.member_b
                 /\ j.param_a = OperandParamA /\ j.param_b = OperandParamB
              \/ /\ j.member_a = last.member_b /\ j.member_b = last.member_a
                 /\ j.param_a = OperandParamB /\ j.param_b = OperandParamA
           /\ WithinEndpoints(j.member_a, point_at_param(j.member_a, j.param_a))

\* a joint whose roles are swapped relative to the operand order, the first
\* operand's parameter having been clamped up to 0
C26_Witness ==
    /\ FIReturned
    /\ last.result # None
    /\ last.result.member_a = last.member_b
    /\ last.result.member_a # last.member_a
    /\ RLt(SegmentParams(last.member_a, last.member_b).param_a, RInt(0))
    /\ last.result.param_b = RInt(0)
    /\ last.result.param_a = Rat(1, 2)

---------------------------------------------------------------------------
(* Properties of the conversion of frame members to axes *)

\* the axis direction of an axis from start to end, as a unit vector
AxisDirection(axis) ==
    UnitVector(RPoint(_subtract(axis.end, axis.start)))

\* C29: for every FrameMember of a generated frame, whose rotation is
\* (0,0,0), (0,90,0) or (-90,0,0), members_from_frame_members and
\* JointedBoxGenerator._create_member_axes derive the same end point and the
\* same axis direction.
C29_SameEndPoints ==
    Returned("members_from_frame_members")
    => LET axes == _create_member_axes(last.frame_members, last.profile)
       IN  /\ Len(last.result) = Len(axes)
           /\ \A i \in 1..Len(axes) :
                 /\ last.frame_members[i].rotation
                       \in {<<0, 0, 0>>, <<0, 90, 0>>, <<-90, 0, 0>>}
                 /\ last.result[i].start = axes[i].start
                 /\ last.result[i].end = axes[i].end
                 /\ AxisDirection(last.result[i]) = AxisDirection(axes[i])

---------------------------------------------------------------------------
(* Properties of the end caps *)

\* a joint of js occurs at the given end of the member: the member's joint
\* parameter is at 0 (start) or at 1 (end), as Joint.is_end_joint_a/_b tell
JointAtEnd(js, member_id, end) ==
    LET at(param) == IF end = "start" THEN RLt(param, <<1, 100>>)
                     ELSE RGt(param, <<99, 100>>)
    IN  \E k \in 1..Len(js) :
           \/ js[k].member_a.member_id = member_id /\ at(js[k].param_a)
           \/ js[k].member_b.member_id = member_id /\ at(js[k].param_b)

\* the caps hold one for the given end of the member
Capped(caps, member_id, end) ==
    \E k \in 1..Len(caps) : caps[k].member_id = member_id /\ caps[k].end = end

\* C30: generate_end_caps_for_frame creates a cap for a member end exactly
\* when no joint of the given list occurs at that end of that member.
C30_CapsOnOpenEnds ==
    Returned("generate_end_caps_for_frame")
    => \A i \in 1..Len(last.frame_members) : \A end \in {"start", "end"} :
          LET member_id == get_name(last.frame_members[i])
          IN  Capped(last.result, member_id, end)
                <=> ~JointAtEnd(last.joints, member_id, end)

---------------------------------------------------------------------------
(* profiles/profile_manager.py: ProfileManager                             *)
(* A profile name is the sequence of its characters, the extension         *)
(* ".json" standing as one of them.  A directory is the function from the  *)
(* names of its files to their contents, a dictionary the function from    *)
(* its keys to their values.                                               *)

\* a TubeProfile by its name and description; its geometry, tolerances,
\* material and metadata are written and read back the way the description is
NamedProfile(name, description) == [name |-> name, description |-> description]

\* get_profile or copy_to_custom returning None
NoProfile == NamedProfile(<<>>, "None")

\* TubeProfile.save(path): the text of to_json() written to the file
to_json(p) == [json_name |-> p.name, json_description |-> p.description]

\* TubeProfile.load(path): from_json of the file's text
from_json(text) == NamedProfile(text.json_name, text.json_description)

\* d[key] = value
Put(d, key, value) ==
    [k \in DOMAIN d \cup {key} |-> IF k = key THEN value ELSE d[k]]

\* d.pop(key, None), path.unlink()
Pop(d, key) == [k \in DOMAIN d \ {key} |-> d[k]]

\* ProfileManager(profiles_dir) over the two directories as they are on disk
ProfileManager(library_dir, custom_dir) ==
    [library_dir |-> library_dir, custom_dir |-> custom_dir, _cache |-> <<>>]

\* the file name of self._profile_path(name, location); location picks the
\* directory
_profile_path(name) ==
    LET safe_name == [i \in 1..Len(name) |->
                          IF name[i] \in {"/", "\\"} THEN "_" ELSE name[i]]
    IN  IF Len(safe_name) > 0 /\ safe_name[Len(safe_name)] = ".json" THEN safe_name
        ELSE Append(safe_name, ".json")

\* self.get_profile(name): the manager afterwards and the value returned.
\* The files are those TubeProfile.save wrote, so load raises nothing.
get_profile(self, name) ==
    LET path == _profile_path(name)
        loaded(dir) ==
            [self |-> [self EXCEPT !._cache = Put(@, name, from_json(dir[path]))],
             result |-> from_json(dir[path])]
    IN  IF name \in DOMAIN self._cache
        THEN [self |-> self, result |-> self._cache[name]]
        ELSE IF path \in DOMAIN self.custom_dir THEN loaded(self.custom_dir)
        ELSE IF path \in DOMAIN self.library_dir THEN loaded(self.library_dir)
        ELSE [self |-> self, result |-> NoProfile]

\* self.save_profile(p, to_library, overwrite)
save_profile(self, p, to_library, overwrite) ==
    LET path == _profile_path(p.name)
        dir == IF to_library THEN self.library_dir ELSE self.custom_dir
        saved == Put(dir, path, to_json(p))
    IN  IF path \in DOMAIN dir /\ ~overwrite
        THEN [self |-> self, result |-> "FileExistsError"]
        ELSE [self |-> [self EXCEPT
                          !.library_dir = IF to_library THEN saved ELSE @,
                          !.custom_dir = IF to_library THEN @ ELSE saved,
                          !._cache = Put(@, p.name, p)],
              result |-> "saved"]

\* self.delete_profile(name, from_library)
delete_profile(self, name, from_library) ==
    LET path == _profile_path(name)
        dir == IF from_library THEN self.library_dir ELSE self.custom_dir
    IN  IF path \in DOMAIN dir
        THEN [self |-> [self EXCEPT
                          !.library_dir = IF from_library THEN Pop(dir, path) ELSE @,
                          !.custom_dir = IF from_library THEN @ ELSE Pop(dir, path),
                          !._cache = Pop(@, name)],
              result |-> TRUE]
        ELSE [self |-> self, result |-> FALSE]

\* self.copy_to_custom(name)
copy_to_custom(self, name) ==
    LET path == _profile_path(name)
    IN  IF path \notin DOMAIN self.library_dir
        THEN [self |-> self, result |-> NoProfile]
        ELSE get_profile([self EXCEPT
                            !.custom_dir = Put(@, path, self.library_dir[path]),
                            !._cache = Pop(@, name)],
                         name)

(* One manager used over its directories *)

\* the names profiles are saved under
ProfileNames == { <<"t">>, <<"a", "/", "b">> }

\* the names profiles are asked for by: "with or without .json"
LookupNames == ProfileNames \cup { <<"t", ".json">> }

Descriptions == {"one", "two"}

\* the library as shipped: empty, or holding the profile t
Libraries ==
    { <<>>, Put(<<>>, _profile_path(<<"t">>), to_json(NamedProfile(<<"t">>, "one"))) }

ProfileInit ==
    /\ \E library_dir \in Libraries : manager = ProfileManager(library_dir, <<>>)
    /\ last = [op |-> "ProfileManager", name |-> <<>>, pc |-> "return",
               result |-> NoProfile]
    /\ OrchIdle

\* the call op(name) has returned result
Called(op, name, result) == [op |-> op, name |-> name, pc |-> "return", result |-> result]

GetProfile ==
    \E name \in LookupNames :
       LET outcome == get_profile(manager, name)
       IN  /\ manager' = outcome.self
           /\ last' = Called("get_profile", name, outcome.result)
           /\ UNCHANGED orch_vars

SaveProfile ==
    \E name \in ProfileNames, description \in Descriptions,
       to_library \in BOOLEAN, overwrite \in BOOLEAN :
       LET outcome == save_profile(manager, NamedProfile(name, description),
                                   to_library, overwrite)
       IN  /\ manager' = outcome.self
           /\ last' = Called("save_profile", name, outcome.result)
           /\ UNCHANGED orch_vars

DeleteProfile ==
    \E name \in LookupNames, from_library \in BOOLEAN :
       LET outcome == delete_profile(manager, name, from_library)
       IN  /\ manager' = outcome.self
           /\ last' = Called("delete_profile", name, outcome.result)
           /\ UNCHANGED orch_vars

CopyToCustom ==
    \E name \in LookupNames :
       LET outcome == copy_to_custom(manager, name)
       IN  /\ manager' = outcome.self
           /\ last' = Called("copy_to_custom", name, outcome.result)
           /\ UNCHANGED orch_vars

ProfileNext == GetProfile \/ SaveProfile \/ DeleteProfile \/ CopyToCustom

ProfileSpec == ProfileInit /\ [][ProfileNext]_vars

---------------------------------------------------------------------------
(* Properties of the profile cache *)

\* what a manager constructed now over the same directories returns for name
FreshProfile(name) ==
    get_profile(ProfileManager(manager.library_dir, manager.custom_dir), name).result

\* C28: whatever save_profile, delete_profile, copy_to_custom and
\* get_profile calls were made on the manager, no entry of its cache differs
\* from the profile a fresh manager loads from disk for that name (the
\* custom/ file if there is one, else the library/ file, else None), and
\* get_profile(name) returns that profile
C28_CacheMatchesDisk ==
    /\ \A name \in DOMAIN manager._cache : manager._cache[name] = FreshProfile(name)
    /\ Returned("get_profile") => last.result = FreshProfile(last.name)

=============================================================================
